---- MODULE Spec2Model ----
(***************************************************************************)
(* A model of stemming/stemming.py: the Porter-style word stemmer, the     *)
(* document stemmer and the top-stem selector.  A text is a sequence of    *)
(* one-character strings; indices into a word are 0-based as in the        *)
(* source (At(word, i) reads word[i]).                                     *)
(***************************************************************************)
EXTENDS Integers, Sequences, FiniteSets, TLC

(* ------------------------------------------------------------------ *)
(* Characters and the text primitives of the host language             *)
(* ------------------------------------------------------------------ *)

LowerLetters == <<"a", "b", "c", "d", "e", "f", "g", "h", "i", "j", "k", "l", "m", "n", "o", "p", "q", "r", "s", "t", "u", "v", "w", "x", "y", "z">>

UpperLetters == <<"A", "B", "C", "D", "E", "F", "G", "H", "I", "J", "K", "L", "M", "N", "O", "P", "Q", "R", "S", "T", "U", "V", "W", "X", "Y", "Z">>

\* The characters of the model in code-point order (the order text comparison uses).
CodePoints == <<"\t", "\n", "\r", " ", "!", "\"", "#", "&", "'", "(", ")", "*", ",", "-", ".", "0", "1", "2", "3", "4", "5", "6", "7", "8", "9", "?", "@">> \o UpperLetters \o <<"^">> \o LowerLetters

Chars == {CodePoints[k] : k \in 1..Len(CodePoints)}

Ord == [c \in Chars |-> CHOOSE k \in 1..Len(CodePoints) : CodePoints[k] = c]

LowerOf == [c \in Chars |->
    IF \E k \in 1..Len(UpperLetters) : UpperLetters[k] = c
    THEN LowerLetters[CHOOSE k \in 1..Len(UpperLetters) : UpperLetters[k] = c]
    ELSE c]

UpperOf == [c \in Chars |->
    IF \E k \in 1..Len(LowerLetters) : LowerLetters[k] = c
    THEN UpperLetters[CHOOSE k \in 1..Len(LowerLetters) : LowerLetters[k] = c]
    ELSE c]

IsLetter(c) == LowerOf[c] # c \/ UpperOf[c] # c

\* str.lower()
lower(word) == [k \in 1..Len(word) |-> LowerOf[word[k]]]

\* str.upper()
upper(word) == [k \in 1..Len(word) |-> UpperOf[word[k]]]

\* str.title(): a letter is upper-cased when it follows a non-letter (or starts
\* the text) and lower-cased otherwise.
title(word) == [k \in 1..Len(word) |->
    IF k = 1 \/ ~IsLetter(word[k - 1]) THEN UpperOf[word[k]] ELSE LowerOf[word[k]]]

\* Mutant of strip: only the end of the text is stripped (str.rstrip).
strip_right_only(word, chars) ==
    LET keep == {k \in 1..Len(word) : word[k] \notin chars}
    IN  IF keep = {} THEN <<>>
        ELSE SubSeq(word, 1, CHOOSE k \in keep : \A j \in keep : k >= j)

\* str.strip(chars): the longest prefix and suffix made of chars are removed.
strip(word, chars) ==
    LET keep == {k \in 1..Len(word) : word[k] \notin chars}
    IN  IF keep = {} THEN <<>>
        ELSE SubSeq(word, CHOOSE k \in keep : \A j \in keep : k <= j,
                          CHOOSE k \in keep : \A j \in keep : k >= j)

\* word[i] for 0 <= i < len(word)
At(word, i) == word[i + 1]

\* word.endswith(suffix)
endswith(word, suffix) ==
    /\ Len(word) >= Len(suffix)
    /\ SubSeq(word, Len(word) - Len(suffix) + 1, Len(word)) = suffix

\* word[:-n] for n >= 1 (a slice never raises: too short a word gives "")
DropLast(word, n) == IF Len(word) <= n THEN <<>> ELSE SubSeq(word, 1, Len(word) - n)

\* a < b for texts: lexicographic by code point, a proper prefix is smaller
RECURSIVE TextLess(_, _)
TextLess(a, b) ==
    IF b = <<>> THEN FALSE
    ELSE IF a = <<>> THEN TRUE
    ELSE IF Head(a) = Head(b) THEN TextLess(Tail(a), Tail(b))
    ELSE Ord[Head(a)] < Ord[Head(b)]

(* ------------------------------------------------------------------ *)
(* Letter classifier and shape metrics                                 *)
(* ------------------------------------------------------------------ *)

vowels == {"a", "e", "i", "o", "u"}

\* Mutant of is_consonant: a "y" is judged by the letter before it alone, which
\* counts as a consonant unless it is one of a, e, i, o, u.
is_consonant_flat(word, i) ==
    IF At(word, i) \in vowels THEN FALSE
    ELSE IF At(word, i) = "y"
         THEN IF i = 0 THEN TRUE ELSE At(word, i - 1) \in vowels
         ELSE TRUE

RECURSIVE is_consonant(_, _)
is_consonant(word, i) ==
    IF At(word, i) \in vowels THEN FALSE
    ELSE IF At(word, i) = "y"
         THEN IF i = 0 THEN TRUE ELSE ~is_consonant(word, i - 1)
         ELSE TRUE

\* the indices of the calls is_consonant(word, i) has open when its recursion
\* is deepest, outermost first: a "y" that is not the first letter asks about
\* the letter before it
RECURSIVE is_consonant_calls(_, _)
is_consonant_calls(word, i) ==
    IF At(word, i) \notin vowels /\ At(word, i) = "y" /\ i # 0
    THEN <<i>> \o is_consonant_calls(word, i - 1)
    ELSE <<i>>

contains_vowel(stem) == \E i \in 0..(Len(stem) - 1) : ~is_consonant(stem, i)

ends_double_consonant(word) ==
    /\ Len(word) >= 2
    /\ word[Len(word)] = word[Len(word) - 1]
    /\ is_consonant(word, Len(word) - 1)

ends_cvc(word) ==
    IF Len(word) = 2
    THEN ~is_consonant(word, 0) /\ is_consonant(word, 1)
    ELSE IF Len(word) >= 3
         THEN /\ is_consonant(word, Len(word) - 3)
              /\ ~is_consonant(word, Len(word) - 2)
              /\ is_consonant(word, Len(word) - 1)
              /\ word[Len(word)] \notin {"w", "x", "y"}
         ELSE FALSE

\* the consonant/vowel signature measure() builds, one marker per letter
cv_sequence(stem) ==
    [k \in 1..Len(stem) |-> IF is_consonant(stem, k - 1) THEN "c" ELSE "v"]

\* str.count(sub): non-overlapping occurrences, scanned left to right from k
RECURSIVE count(_, _, _)
count(text, sub, k) ==
    IF k + Len(sub) - 1 > Len(text) THEN 0
    ELSE IF SubSeq(text, k, k + Len(sub) - 1) = sub
         THEN 1 + count(text, sub, k + Len(sub))
         ELSE count(text, sub, k + 1)

\* Mutant of measure: the consonant-vowel pairs are counted instead.
measure_counts_cv(stem) == count(cv_sequence(stem), <<"c", "v">>, 1)

measure(stem) == count(cv_sequence(stem), <<"v", "c">>, 1)

(* ------------------------------------------------------------------ *)
(* The rule cascade                                                    *)
(* ------------------------------------------------------------------ *)

\* Mutant of apply_rule_1a: "ies" is dropped whole instead of leaving "i".
apply_rule_1a_drops_ies(word) ==
    IF endswith(word, <<"i", "e", "s">>) /\ Len(word) = 4 THEN DropLast(word, 1)
    ELSE IF endswith(word, <<"i", "e", "s">>) THEN DropLast(word, 3)
    ELSE IF endswith(word, <<"s", "s", "e", "s">>) THEN DropLast(word, 2)
    ELSE IF ~endswith(word, <<"s", "s">>) /\ endswith(word, <<"s">>) THEN DropLast(word, 1)
    ELSE word

\* Mutant of apply_rule_1a: a final "s" is dropped after another "s" as well.
apply_rule_1a_strips_ss(word) ==
    IF endswith(word, <<"i", "e", "s">>) /\ Len(word) = 4 THEN DropLast(word, 1)
    ELSE IF endswith(word, <<"s", "s", "e", "s">>) \/ endswith(word, <<"i", "e", "s">>) THEN DropLast(word, 2)
    ELSE IF endswith(word, <<"s">>) THEN DropLast(word, 1)
    ELSE word

apply_rule_1a(word) ==
    IF endswith(word, <<"i", "e", "s">>) /\ Len(word) = 4 THEN DropLast(word, 1)
    ELSE IF endswith(word, <<"s", "s", "e", "s">>) \/ endswith(word, <<"i", "e", "s">>) THEN DropLast(word, 2)
    ELSE IF ~endswith(word, <<"s", "s">>) /\ endswith(word, <<"s">>) THEN DropLast(word, 1)
    ELSE word

\* Mutant of rule_1b_stem: the suffix is dropped whether or not the remainder
\* contains a vowel.
rule_1b_stem_without_vowel_test(word) ==
    IF endswith(word, <<"e", "d">>) THEN <<DropLast(word, 2)>>
    ELSE IF endswith(word, <<"i", "n", "g">>) THEN <<DropLast(word, 3)>>
    ELSE <<>>

\* The stem the "ed"/"ing" loop of rule 1b leaves: <<stem>> when a suffix
\* matched and its remainder contains a vowel, << >> for None.
rule_1b_stem(word) ==
    IF endswith(word, <<"e", "d">>) /\ contains_vowel(DropLast(word, 2))
    THEN <<DropLast(word, 2)>>
    ELSE IF endswith(word, <<"i", "n", "g">>) /\ contains_vowel(DropLast(word, 3))
         THEN <<DropLast(word, 3)>>
         ELSE <<>>

apply_rule_1b(word) ==
    IF endswith(word, <<"i", "e", "d">>)
    THEN IF Len(word) = 4 THEN DropLast(word, 1) ELSE DropLast(word, 2)
    ELSE IF endswith(word, <<"e", "e", "d">>)
    THEN IF measure(DropLast(word, 3)) > 0 THEN DropLast(word, 3) \o <<"e", "e">> ELSE word
    ELSE LET found == rule_1b_stem(word)
         IN  IF found = <<>> \/ found[1] = <<>> THEN word
             ELSE LET stem == found[1]
                  IN  IF endswith(stem, <<"a", "t">>) \/ endswith(stem, <<"b", "l">>)
                            \/ endswith(stem, <<"i", "z">>)
                      THEN stem \o <<"e">>
                      ELSE IF ends_double_consonant(stem)
                                /\ stem[Len(stem)] \notin {"l", "s", "z"}
                      THEN DropLast(stem, 1)
                      ELSE IF measure(stem) = 1 /\ ends_cvc(stem)
                      THEN stem \o <<"e">>
                      ELSE stem

\* Mutant of apply_rule_1c: a remainder of one letter is long enough.
apply_rule_1c_any_stem(word) ==
    IF endswith(word, <<"y">>)
    THEN LET stem == DropLast(word, 1)
         IN  IF Len(stem) > 0 /\ is_consonant(stem, Len(stem) - 1)
             THEN stem \o <<"i">>
             ELSE word
    ELSE word

apply_rule_1c(word) ==
    IF endswith(word, <<"y">>)
    THEN LET stem == DropLast(word, 1)
         IN  IF Len(stem) > 1 /\ is_consonant(stem, Len(stem) - 1)
             THEN stem \o <<"i">>
             ELSE word
    ELSE word

\* The first pair of a (suffix, replacement) table whose suffix ends the word
\* with a remainder of measure > m; 0 when there is none.
FirstRule(word, table, m) ==
    LET hits == {k \in 1..Len(table) :
                    /\ endswith(word, table[k][1])
                    /\ measure(DropLast(word, Len(table[k][1]))) > m}
    IN  IF hits = {} THEN 0 ELSE CHOOSE k \in hits : \A j \in hits : k <= j

rule_2_table == <<
    <<<<"a", "t", "i", "o", "n", "a", "l">>, <<"a", "t", "e">>>>,
    <<<<"t", "i", "o", "n", "a", "l">>, <<"t", "i", "o", "n">>>>,
    <<<<"e", "n", "c", "i">>, <<"e", "n", "c", "e">>>>,
    <<<<"a", "n", "c", "i">>, <<"a", "n", "c", "e">>>>,
    <<<<"i", "z", "e", "r">>, <<"i", "z", "e">>>>,
    <<<<"b", "l", "i">>, <<"b", "l", "e">>>>,
    <<<<"a", "l", "l", "i">>, <<"a", "l">>>>,
    <<<<"e", "n", "t", "l", "i">>, <<"e", "n", "t">>>>,
    <<<<"e", "l", "i">>, <<"e">>>>,
    <<<<"o", "u", "s", "l", "i">>, <<"o", "u", "s">>>>,
    <<<<"i", "z", "a", "t", "i", "o", "n">>, <<"i", "z", "e">>>>,
    <<<<"a", "t", "i", "o", "n">>, <<"a", "t", "e">>>>,
    <<<<"a", "t", "o", "r">>, <<"a", "t", "e">>>>,
    <<<<"a", "l", "i", "s", "m">>, <<"a", "l">>>>,
    <<<<"i", "v", "e", "n", "e", "s", "s">>, <<"i", "v", "e">>>>,
    <<<<"f", "u", "l", "n", "e", "s", "s">>, <<"f", "u", "l">>>>,
    <<<<"o", "u", "s", "n", "e", "s", "s">>, <<"o", "u", "s">>>>,
    <<<<"a", "l", "i", "t", "i">>, <<"a", "l">>>>,
    <<<<"i", "v", "i", "t", "i">>, <<"i", "v", "e">>>>,
    <<<<"b", "i", "l", "i", "t", "i">>, <<"b", "l", "e">>>>,
    <<<<"f", "u", "l", "l", "i">>, <<"f", "u", "l">>>> >>

\* Mutant of rule_2_recurses: "alli" is left to the suffix table.
rule_2_never_recurses(word) == FALSE

\* if word.endswith("alli") and measure(word[:-4]) > 0
rule_2_recurses(word) == endswith(word, <<"a", "l", "l", "i">>) /\ measure(DropLast(word, 4)) > 0

\* the suffix loop and the "logi" rule of apply_rule_2
rule_2_suffixes(word) ==
    LET k == FirstRule(word, rule_2_table, 0)
    IN  IF k # 0
        THEN DropLast(word, Len(rule_2_table[k][1])) \o rule_2_table[k][2]
        ELSE IF endswith(word, <<"l", "o", "g", "i">>) /\ measure(DropLast(word, 3)) > 0
             THEN DropLast(word, 1)
             ELSE word

RECURSIVE apply_rule_2(_)
apply_rule_2(word) ==
    IF rule_2_recurses(word)
    THEN apply_rule_2(DropLast(word, 2))
    ELSE rule_2_suffixes(word)

rule_3_table == <<
    <<<<"i", "c", "a", "t", "e">>, <<"i", "c">>>>,
    <<<<"a", "t", "i", "v", "e">>, <<>>>>,
    <<<<"a", "l", "i", "z", "e">>, <<"a", "l">>>>,
    <<<<"i", "c", "i", "t", "i">>, <<"i", "c">>>>,
    <<<<"i", "c", "a", "l">>, <<"i", "c">>>>,
    <<<<"f", "u", "l">>, <<>>>>,
    <<<<"n", "e", "s", "s">>, <<>>>> >>

apply_rule_3(word) ==
    LET k == FirstRule(word, rule_3_table, 0)
    IN  IF k # 0
        THEN DropLast(word, Len(rule_3_table[k][1])) \o rule_3_table[k][2]
        ELSE word

rule_4_first == <<
    <<<<"a", "l">>, <<>>>>, <<<<"a", "n", "c", "e">>, <<>>>>, <<<<"e", "n", "c", "e">>, <<>>>>, <<<<"e", "r">>, <<>>>>,
    <<<<"i", "c">>, <<>>>>, <<<<"a", "b", "l", "e">>, <<>>>>, <<<<"i", "b", "l", "e">>, <<>>>>, <<<<"a", "n", "t">>, <<>>>>,
    <<<<"e", "m", "e", "n", "t">>, <<>>>>, <<<<"m", "e", "n", "t">>, <<>>>>, <<<<"e", "n", "t">>, <<>>>> >>

rule_4_last == <<
    <<<<"o", "u">>, <<>>>>, <<<<"i", "s", "m">>, <<>>>>, <<<<"a", "t", "e">>, <<>>>>, <<<<"i", "t", "i">>, <<>>>>,
    <<<<"o", "u", "s">>, <<>>>>, <<<<"i", "v", "e">>, <<>>>>, <<<<"i", "z", "e">>, <<>>>> >>

\* Mutant of apply_rule_4: "ion" is dropped whatever letter comes before it.
apply_rule_4_any_ion(word) ==
    LET k == FirstRule(word, rule_4_first, 1)
    IN  IF k # 0 THEN DropLast(word, Len(rule_4_first[k][1]))
        ELSE IF endswith(word, <<"i", "o", "n">>) /\ measure(DropLast(word, 3)) > 1
        THEN DropLast(word, 3)
        ELSE LET j == FirstRule(word, rule_4_last, 1)
             IN  IF j # 0 THEN DropLast(word, Len(rule_4_last[j][1])) ELSE word

apply_rule_4(word) ==
    LET k == FirstRule(word, rule_4_first, 1)
    IN  IF k # 0 THEN DropLast(word, Len(rule_4_first[k][1]))
        ELSE IF /\ endswith(word, <<"i", "o", "n">>)
                /\ measure(DropLast(word, 3)) > 1
                /\ DropLast(word, 3)[Len(word) - 3] \in {"s", "t"}
        THEN DropLast(word, 3)
        ELSE LET j == FirstRule(word, rule_4_last, 1)
             IN  IF j # 0 THEN DropLast(word, Len(rule_4_last[j][1])) ELSE word

\* Mutant of apply_rule_5a: a stem of measure 1 loses its "e" whatever it ends in.
apply_rule_5a_ignores_cvc(word) ==
    IF endswith(word, <<"e">>) /\ measure(DropLast(word, 1)) > 0
    THEN DropLast(word, 1)
    ELSE word

apply_rule_5a(word) ==
    IF endswith(word, <<"e">>)
    THEN LET stem == DropLast(word, 1)
         IN  IF measure(stem) > 1 THEN stem
             ELSE IF measure(stem) = 1 /\ ~ends_cvc(stem) THEN stem
             ELSE word
    ELSE word

\* Mutant of apply_rule_5b: a remainder of measure 1 is enough.
apply_rule_5b_measure_one(word) ==
    IF endswith(word, <<"l", "l">>) /\ measure(DropLast(word, 1)) > 0
    THEN DropLast(word, 1)
    ELSE word

apply_rule_5b(word) ==
    IF endswith(word, <<"l", "l">>) /\ measure(DropLast(word, 1)) > 1
    THEN DropLast(word, 1)
    ELSE word

(* ------------------------------------------------------------------ *)
(* Where the cascade can raise: every place the source indexes a text  *)
(* (word[i], stem[-1]) raises IndexError when the index is out of      *)
(* range.  Slices, endswith, len and membership never raise.           *)
(* ------------------------------------------------------------------ *)

\* word[i] raises: Python accepts -len(word) <= i < len(word)
index_error(word, i) == i < 0 - Len(word) \/ i >= Len(word)

\* is_consonant(word, i) raises: at word[i], or in the recursive call for a "y"
RECURSIVE is_consonant_raises(_, _)
is_consonant_raises(word, i) ==
    IF index_error(word, i) THEN TRUE
    ELSE LET c == IF i >= 0 THEN At(word, i) ELSE At(word, Len(word) + i)
         IN  c = "y" /\ i # 0 /\ is_consonant_raises(word, i - 1)

\* apply_rule_1b raises: only at stem[-1], reached with a non-empty stem that
\* does not end "at"/"bl"/"iz" and ends in a doubled letter
apply_rule_1b_raises(word) ==
    /\ ~endswith(word, <<"i", "e", "d">>)
    /\ ~endswith(word, <<"e", "e", "d">>)
    /\ LET found == rule_1b_stem(word)
       IN  /\ found # <<>>
           /\ found[1] # <<>>
           /\ ~(endswith(found[1], <<"a", "t">>) \/ endswith(found[1], <<"b", "l">>)
                  \/ endswith(found[1], <<"i", "z">>))
           /\ ends_double_consonant(found[1])
           /\ index_error(found[1], -1)

\* apply_rule_1c raises: only in is_consonant(stem, len(stem) - 1)
apply_rule_1c_raises(word) ==
    /\ endswith(word, <<"y">>)
    /\ Len(DropLast(word, 1)) > 1
    /\ is_consonant_raises(DropLast(word, 1), Len(DropLast(word, 1)) - 1)

\* Mutant of apply_rule_4_raises: stem[-1] is read before the measure is taken.
apply_rule_4_raises_unguarded(word) ==
    /\ FirstRule(word, rule_4_first, 1) = 0
    /\ endswith(word, <<"i", "o", "n">>)
    /\ index_error(DropLast(word, 3), -1)

\* apply_rule_4 raises: only at stem[-1] of the "ion" rule
apply_rule_4_raises(word) ==
    /\ FirstRule(word, rule_4_first, 1) = 0
    /\ endswith(word, <<"i", "o", "n">>)
    /\ measure(DropLast(word, 3)) > 1
    /\ index_error(DropLast(word, 3), -1)

(* ------------------------------------------------------------------ *)
(* The is_consonant calls of the shape metrics and of the rules, each  *)
(* call a pair <<word, i>>                                             *)
(* ------------------------------------------------------------------ *)

\* is_consonant(word, i) and the calls it nests; a call whose index is out of
\* range gets no further than word[i]
nested_calls(word, i) ==
    IF i < 0 \/ i >= Len(word) THEN {<<word, i>>}
    ELSE {<<word, is_consonant_calls(word, i)[k]>> :
             k \in 1..Len(is_consonant_calls(word, i))}

\* for i in range(len(stem)): is_consonant(stem, i), up to the first vowel
contains_vowel_calls(stem) ==
    UNION {nested_calls(stem, i) :
              i \in {n \in 0..(Len(stem) - 1) :
                        \A j \in 0..(n - 1) : is_consonant(stem, j)}}

\* is_consonant(word, len(word) - 1), for a word that ends in a doubled letter
ends_double_consonant_calls(word) ==
    IF Len(word) >= 2 /\ word[Len(word)] = word[Len(word) - 1]
    THEN nested_calls(word, Len(word) - 1)
    ELSE {}

\* the calls of ends_cvc, whose `and` stops at the first false operand
ends_cvc_calls(word) ==
    IF Len(word) = 2
    THEN nested_calls(word, 0)
         \cup (IF ~is_consonant(word, 0) THEN nested_calls(word, 1) ELSE {})
    ELSE IF Len(word) >= 3
    THEN nested_calls(word, Len(word) - 3)
         \cup (IF is_consonant(word, Len(word) - 3)
               THEN nested_calls(word, Len(word) - 2)
                    \cup (IF ~is_consonant(word, Len(word) - 2)
                          THEN nested_calls(word, Len(word) - 1) ELSE {})
               ELSE {})
    ELSE {}

\* for i in range(len(stem)): consonant = is_consonant(stem, i)
measure_calls(stem) == UNION {nested_calls(stem, i) : i \in 0..(Len(stem) - 1)}

apply_rule_1a_calls(word) == {}

apply_rule_1b_calls(word) ==
    IF endswith(word, <<"i", "e", "d">>) THEN {}
    ELSE IF endswith(word, <<"e", "e", "d">>) THEN measure_calls(DropLast(word, 3))
    ELSE LET looped ==
                 (IF endswith(word, <<"e", "d">>)
                  THEN contains_vowel_calls(DropLast(word, 2)) ELSE {})
                 \cup (IF endswith(word, <<"i", "n", "g">>) /\ ~(endswith(word, <<"e", "d">>)
                                                     /\ contains_vowel(DropLast(word, 2)))
                       THEN contains_vowel_calls(DropLast(word, 3)) ELSE {})
             found == rule_1b_stem(word)
         IN  IF found = <<>> \/ found[1] = <<>> THEN looped
             ELSE LET stem == found[1]
                  IN  IF endswith(stem, <<"a", "t">>) \/ endswith(stem, <<"b", "l">>)
                            \/ endswith(stem, <<"i", "z">>)
                      THEN looped
                      ELSE IF ends_double_consonant(stem)
                                /\ stem[Len(stem)] \notin {"l", "s", "z"}
                      THEN looped \cup ends_double_consonant_calls(stem)
                      ELSE looped \cup ends_double_consonant_calls(stem)
                                  \cup measure_calls(stem)
                                  \cup (IF measure(stem) = 1
                                        THEN ends_cvc_calls(stem) ELSE {})

\* is_consonant(stem, len(stem) - 1), behind len(stem) > 1
apply_rule_1c_calls(word) ==
    IF endswith(word, <<"y">>) /\ Len(DropLast(word, 1)) > 1
    THEN nested_calls(DropLast(word, 1), Len(DropLast(word, 1)) - 1)
    ELSE {}

\* a suffix loop: measure(word[:-len(suffix)]) for every suffix that ends the
\* word, up to the first whose remainder has a measure > m
table_calls(word, table, m) ==
    LET k == FirstRule(word, table, m)
    IN  UNION {measure_calls(DropLast(word, Len(table[j][1]))) :
                  j \in {n \in 1..Len(table) :
                            endswith(word, table[n][1]) /\ (k = 0 \/ n <= k)}}

RECURSIVE apply_rule_2_calls(_)
apply_rule_2_calls(word) ==
    (IF endswith(word, <<"a", "l", "l", "i">>) THEN measure_calls(DropLast(word, 4)) ELSE {})
    \cup (IF rule_2_recurses(word) THEN apply_rule_2_calls(DropLast(word, 2))
          ELSE table_calls(word, rule_2_table, 0)
               \cup (IF FirstRule(word, rule_2_table, 0) = 0 /\ endswith(word, <<"l", "o", "g", "i">>)
                     THEN measure_calls(DropLast(word, 3)) ELSE {}))

apply_rule_3_calls(word) == table_calls(word, rule_3_table, 0)

apply_rule_4_calls(word) ==
    table_calls(word, rule_4_first, 1)
    \cup (IF FirstRule(word, rule_4_first, 1) # 0 THEN {}
          ELSE (IF endswith(word, <<"i", "o", "n">>) THEN measure_calls(DropLast(word, 3)) ELSE {})
               \cup (IF /\ endswith(word, <<"i", "o", "n">>)
                        /\ measure(DropLast(word, 3)) > 1
                        /\ DropLast(word, 3)[Len(word) - 3] \in {"s", "t"}
                     THEN {}
                     ELSE table_calls(word, rule_4_last, 1)))

apply_rule_5a_calls(word) ==
    IF endswith(word, <<"e">>)
    THEN measure_calls(DropLast(word, 1))
         \cup (IF measure(DropLast(word, 1)) = 1
               THEN ends_cvc_calls(DropLast(word, 1)) ELSE {})
    ELSE {}

apply_rule_5b_calls(word) ==
    IF endswith(word, <<"l", "l">>) THEN measure_calls(DropLast(word, 1)) ELSE {}

\* the is_consonant calls the cascade stage `name` makes when given `word`
stage_calls(name, word) ==
    CASE name = "1a" -> apply_rule_1a_calls(word)
      [] name = "1b" -> apply_rule_1b_calls(word)
      [] name = "1c" -> apply_rule_1c_calls(word)
      [] name = "2" -> apply_rule_2_calls(word)
      [] name = "3" -> apply_rule_3_calls(word)
      [] name = "4" -> apply_rule_4_calls(word)
      [] name = "5a" -> apply_rule_5a_calls(word)
      [] name = "5b" -> apply_rule_5b_calls(word)

(* ------------------------------------------------------------------ *)
(* Normalizer, Lexicon and exception table                             *)
(* ------------------------------------------------------------------ *)

get_extraneous_chars == <<" ", "\t", "\n", "\r", "!", "?", ".", ",", "(", ")", "@", "#", "&", "*", "^", "\"", "'">>

extraneous_chars == {get_extraneous_chars[k] : k \in 1..Len(get_extraneous_chars)}

\* Mutant of normalize_word: the token is stripped but not lower-cased.
normalize_word_keeps_case(word) == strip(word, extraneous_chars)

normalize_word(word) == strip(lower(word), extraneous_chars)

exceptions_reversed == <<
    <<<<"s", "k", "y">>, <<<<"s", "k", "y">>, <<"s", "k", "i", "e", "s">>>> >>,
    <<<<"d", "i", "e">>, <<<<"d", "y", "i", "n", "g">>>> >>,
    <<<<"l", "i", "e">>, <<<<"l", "y", "i", "n", "g">>>> >>,
    <<<<"t", "i", "e">>, <<<<"t", "y", "i", "n", "g">>>> >>,
    <<<<"n", "e", "w", "s">>, <<<<"n", "e", "w", "s">>>> >>,
    <<<<"i", "n", "n", "i", "n", "g">>, <<<<"i", "n", "n", "i", "n", "g", "s">>, <<"i", "n", "n", "i", "n", "g">>>> >>,
    <<<<"o", "u", "t", "i", "n", "g">>, <<<<"o", "u", "t", "i", "n", "g", "s">>, <<"o", "u", "t", "i", "n", "g">>>> >>,
    <<<<"c", "a", "n", "n", "i", "n", "g">>, <<<<"c", "a", "n", "n", "i", "n", "g", "s">>, <<"c", "a", "n", "n", "i", "n", "g">>>> >>,
    <<<<"h", "o", "w", "e">>, <<<<"h", "o", "w", "e">>>> >>,
    <<<<"p", "r", "o", "c", "e", "e", "d">>, <<<<"p", "r", "o", "c", "e", "e", "d">>>> >>,
    <<<<"e", "x", "c", "e", "e", "d">>, <<<<"e", "x", "c", "e", "e", "d">>>> >>,
    <<<<"s", "u", "c", "c", "e", "e", "d">>, <<<<"s", "u", "c", "c", "e", "e", "d">>>> >> >>

\* Mutant of get_exceptions: the loop stores stem -> exception word.
get_exceptions_reversed ==
    LET pairs == UNION {{<<exceptions_reversed[k][1], exceptions_reversed[k][2][j]>> :
                            j \in 1..Len(exceptions_reversed[k][2])} :
                        k \in 1..Len(exceptions_reversed)}
    IN  [w \in {p[1] : p \in pairs} |-> (CHOOSE p \in pairs : p[1] = w)[2]]

\* exception word -> stem
get_exceptions ==
    LET pairs == UNION {{<<exceptions_reversed[k][2][j], exceptions_reversed[k][1]>> :
                            j \in 1..Len(exceptions_reversed[k][2])} :
                        k \in 1..Len(exceptions_reversed)}
    IN  [w \in {p[1] : p \in pairs} |-> (CHOOSE p \in pairs : p[1] = w)[2]]

(* ------------------------------------------------------------------ *)
(* Bounds and inputs                                                   *)
(* ------------------------------------------------------------------ *)

\* how many of OptionalWords the loaded dictionary may or may not hold
MaxOptional == 2

\* longest token generated over TokenAlphabet
MaxTokenLen == 3

\* longest document generated over DocAlphabet
MaxDocLen == 3

\* most stems of a generated stem mapping, and most tokens listed for one stem
MaxStems == 3

MaxCount == 2

\* dictionary.txt is not part of the sources, so the dictionary is an input:
\* every dictionary of the model holds these words (most of those the test
\* suite's expected stems make valid, and a few more that reach the cascade).
SampleWords == {
    <<"a", "s", "s", "e", "r", "t">>, <<"a", "s", "s", "e", "r", "t", "e", "d">>, <<"a", "s", "s", "e", "r", "t", "i", "v", "e", "n", "e", "s", "s">>, <<"a", "t">>, <<"c", "a", "n", "n", "i", "n", "g">>, <<"c", "a", "p", "r", "i", "c", "i">>,
    <<"c", "a", "p", "r", "i", "c", "i", "o", "u", "s">>, <<"c", "a", "t">>, <<"c", "o", "l", "l", "a", "b", "o", "r">>, <<"c", "o", "l", "l", "a", "b", "o", "r", "a", "t", "e">>, <<"c", "o", "n", "t", "r", "o", "l">>, <<"c", "o", "n", "t", "r", "o", "l", "l", "e", "d">>,
    <<"d", "o", "t", "e">>, <<"d", "o", "t", "e", "d">>, <<"d", "o", "t", "i", "n", "g">>, <<"d", "y", "i", "n", "g">>, <<"e", "f", "f", "e", "c", "t">>, <<"e", "f", "f", "e", "c", "t", "i", "v", "e">>, <<"e", "l", "a", "b", "o", "r">>,
    <<"e", "l", "a", "b", "o", "r", "a", "t", "e">>, <<"e", "l", "a", "b", "o", "r", "a", "t", "i", "n", "g">>, <<"e", "x", "c", "e", "e", "d">>, <<"g", "e", "n", "e", "r">>, <<"g", "e", "n", "e", "r", "a", "t", "e">>, <<"g", "e", "n", "e", "r", "a", "t", "o", "r">>,
    <<"g", "o">>, <<"g", "o", "i", "n", "g">>, <<"h", "a", "p", "p", "i">>, <<"h", "a", "p", "p", "i", "n", "e", "s", "s">>, <<"h", "o", "w">>, <<"i", "n", "n", "i", "n", "g">>, <<"i", "n", "n", "i", "n", "g", "s">>,
    <<"i", "s">>, <<"l", "y", "i", "n", "g">>, <<"m", "i", "c", "e">>, <<"m", "i", "s", "c", "h", "i", "e", "v">>, <<"m", "i", "s", "c", "h", "i", "e", "v", "o", "u", "s">>, <<"m", "o", "n", "s", "t", "e", "r", "s">>, <<"n", "e", "w", "s">>,
    <<"o", "u", "t", "i", "n", "g">>, <<"o", "u", "t", "i", "n", "g", "s">>, <<"p", "e", "o", "p", "l">>, <<"p", "e", "o", "p", "l", "e">>, <<"p", "l", "a", "y">>, <<"p", "l", "a", "y", "e", "d">>, <<"p", "l", "a", "y", "i", "n", "g">>,
    <<"p", "l", "a", "y", "s">>, <<"p", "r", "o", "c", "e", "e", "d">>, <<"q", "u", "i", "z", "z", "i", "c">>, <<"q", "u", "i", "z", "z", "i", "c", "a", "l">>, <<"s", "k", "i", "e", "s">>, <<"s", "k", "y">>, <<"s", "t", "a", "r">>,
    <<"s", "t", "a", "r", "r", "i", "n", "g">>, <<"s", "t", "a", "r", "s">>, <<"s", "u", "c", "c", "e", "e", "d">>, <<"s", "u", "c", "c", "e", "e", "d", "i", "n", "g">>, <<"s", "u", "p", "p", "o", "s">>, <<"s", "u", "p", "p", "o", "s", "e">>,
    <<"s", "u", "p", "p", "o", "s", "e", "d">>, <<"t", "a", "l", "k">>, <<"t", "a", "l", "k", "e", "d">>, <<"t", "a", "l", "k", "i", "n", "g">>, <<"t", "a", "l", "k", "s">>, <<"t", "h", "a", "t">>, <<"t", "y", "i", "n", "g">>,
    <<"u", "n", "f", "o", "r", "t", "u", "n">>, <<"u", "n", "f", "o", "r", "t", "u", "n", "a", "t", "e", "l", "y">>, <<"w", "h", "a", "t">>,
    <<"r", "e", "l", "a", "t", "i", "o", "n", "a", "l">>, <<"r", "a", "d", "i", "c", "a", "l", "l", "y">>, <<"r", "a", "d", "i", "c", "a", "l">>, <<"i", "o", "n">>, <<"v", "i", "s", "i", "o", "n">>, <<"a", "d", "o", "p", "t", "i", "o", "n">>, <<"i", "e", "s">>, <<"s", "e", "s">>,
    <<"s", "e", "e">>, <<"s", "e", "e", "s">>, <<"e", "s">> }

\* Words a dictionary may or may not hold (the first MaxOptional of them vary).
OptionalWords == << <<>>, <<"r", "e", "l", "a", "t", "e">>, <<"m", "o", "n", "s", "t", "e", "r">>, <<"s", "e">>, <<"a", "d", "o", "p", "t">> >>

Lexicons ==
    LET n == IF MaxOptional < Len(OptionalWords) THEN MaxOptional ELSE Len(OptionalWords)
    IN  {SampleWords \cup S : S \in SUBSET {OptionalWords[k] : k \in 1..n}}

\* every text of length <= n over an alphabet (a sequence of characters)
RECURSIVE TextsUpTo(_, _)
TextsUpTo(alphabet, n) ==
    IF n = 0 THEN {<<>>}
    ELSE LET shorter == TextsUpTo(alphabet, n - 1)
         IN  shorter \cup {Append(t, alphabet[k]) : t \in shorter, k \in 1..Len(alphabet)}

TokenAlphabet == <<"e", "S", "!">>

FixedTokens == {
    <<"a", "t">>, <<"I", "t">>, <<"i", "s">>, <<"s", "k", "y">>, <<"s", "k", "i", "e", "s">>, <<"d", "y", "i", "n", "g">>, <<"i", "n", "n", "i", "n", "g", "s">>, <<"c", "a", "n", "n", "i", "n", "g", "s">>, <<"h", "o", "w", "e">>,
    <<"s", "u", "c", "c", "e", "e", "d">>, <<"s", "u", "c", "c", "e", "e", "d", "i", "n", "g">>, <<"g", "e", "n", "e", "r", "a", "t", "e">>, <<"g", "e", "n", "e", "r", "a", "t", "o", "r">>, <<"c", "a", "p", "r", "i", "c", "i", "o", "u", "s">>, <<"d", "o", "t", "e", "d">>,
    <<"s", "t", "a", "r", "r", "i", "n", "g">>, <<"s", "t", "a", "r", "s">>, <<"a", "s", "s", "e", "r", "t", "i", "v", "e", "n", "e", "s", "s">>, <<"p", "l", "a", "y", "e", "d">>, <<"u", "n", "f", "o", "r", "t", "u", "n", "a", "t", "e", "l", "y">>,
    <<"q", "u", "i", "z", "z", "i", "c", "a", "l">>, <<"t", "a", "l", "k", "s">>, <<"T", "a", "l", "k", "i", "n", "g">>, <<"a", "b", "c", "d", "e", "f", "g">>, <<"a", "k", "l", "j", "f", "k", "a", "s", "j">>, <<"m", "o", "n", "s", "t", "e", "r", "s">>,
    <<"r", "e", "l", "a", "t", "i", "o", "n", "a", "l">>, <<"r", "a", "d", "i", "c", "a", "l", "l", "y">>, <<"r", "a", "d", "i", "c", "a", "l">>, <<"i", "o", "n">>, <<"v", "i", "s", "i", "o", "n">>, <<"a", "d", "o", "p", "t", "i", "o", "n">>, <<"h", "a", "p", "p", "i", "n", "e", "s", "s">>,
    <<"c", "o", "n", "t", "r", "o", "l", "l", "e", "d", "?">>, <<"a", "b", "C", "!", "?">>, <<"W", "h", "A", "T", "!", "?">>, <<"(", "c", "a", "r", "E", "f", "u", "L", "l", "y", ")">>, <<"#", "w", "i", "n", "n", "I", "n", "g">>, <<"o", "'", "n", "e", "i", "l">>,
    <<"a", ".", "b">>, <<"x", " ", "y">>, <<"!", "?">>, <<"\t">>, <<"p", "e", "o", "p", "l", "e">>, <<"i", "e", "s">>, <<"s", "e", "e", "s">> }

Tokens == FixedTokens \cup TextsUpTo(TokenAlphabet, MaxTokenLen)

(* ------------------------------------------------------------------ *)
(* State                                                               *)
(* ------------------------------------------------------------------ *)

VARIABLES
    dictionary,     \* the set load_dictionary() returns (the Lexicon)
    op,             \* the call the environment has made: "idle", "stem_word",
                    \* "stem_document" or "get_top_stems"
    pc,             \* stem_word: the statement it is at ("none" outside a call)
    token,          \* stem_word: the argument it was called with
    word,           \* stem_word: its local `word`
    current_word,   \* stem_word: its local `current_word`
    result,         \* stem_word: the value returned
    raised,         \* stem_word: TRUE once a statement has raised IndexError
    ran,            \* history: the cascade stages applied in this call, in order
    outs,           \* history: the raw output of each stage applied
    prev,           \* history: << >> or <<[token, result]>>, the call before this one
    document,       \* stem_document: its argument
    words,          \* stem_document: document.split()
    i,              \* stem_document: number of words already handled
    stem_mappings,  \* stem_document / get_top_stems: the mapping, as the sequence
                    \* of its <<stem, list>> items in insertion order
    stems_seen,     \* history: the stem stem_word returned for each handled word
    dpc,            \* stem_document: "none", "loop", "call" or "done"
    top_stems,      \* get_top_stems: << >> or <<the list returned>>
    arg,            \* a rule or shape metric called directly: its word argument
    index,          \* is_consonant called directly: its argument i
    frames,         \* apply_rule_2 called directly: the arguments of its open calls
    ret,            \* a rule called directly: << >> or <<the word returned>>
    shape,          \* is_consonant, measure called directly: what was returned,
                    \* and the indices is_consonant's nested calls were given
    cache,          \* memoize: the cache of each memoized function, key -> value
    loads,          \* history: how often the body of load_dictionary has run
    used,           \* history: the sets a membership test has been made on
    tpc,            \* per thread: the statement of is_valid_word it is at
    tword,          \* per thread: the argument of its is_valid_word call
    tval,           \* per thread: the set it has built or been handed
    tans,           \* per thread: what `word in word_dict` gave
    calls           \* per thread: the calls it has made

vars == <<dictionary, op, pc, token, word, current_word, result, raised, ran, outs,
          prev, document, words, i, stem_mappings, stems_seen, dpc, top_stems,
          arg, index, frames, ret, shape, cache, loads, used, tpc, tword, tval, tans, calls>>

wordVars == <<pc, token, word, current_word, result, raised, ran, outs>>

docVars == <<document, words, i, stem_mappings, stems_seen, dpc>>

unitVars == <<arg, index, frames, ret, shape>>

memoVars == <<cache, loads, used>>

threadVars == <<tpc, tword, tval, tans, calls>>

\* what outlives a call: the dictionary file, the caches, the threads
processVars == <<dictionary, memoVars, threadVars>>

\* the locals of stem_word, stem_document and get_top_stems
callVars == <<op, pc, token, word, current_word, result, raised, ran, outs, prev,
              document, words, i, stem_mappings, stems_seen, dpc, top_stems, unitVars>>

\* the threads that may call into the module at the same time
NumThreads == 2

Threads == 1..NumThreads

\* the set the n-th run of load_dictionary's body builds: a new object each
\* time, holding the words of dictionary.txt
loaded_set(n) == [id |-> n, words |-> dictionary]

\* no thread is inside a call
ThreadsIdle ==
    /\ tpc = [t \in Threads |-> "idle"]
    /\ tword = [t \in Threads |-> <<>>]
    /\ tval = [t \in Threads |-> <<>>]
    /\ tans = [t \in Threads |-> FALSE]
    /\ calls = [t \in Threads |-> 0]

\* the shape metrics called directly
ShapeMetrics == {"is_consonant", "measure"}

\* no shape metric has been called
NoShape == [is_consonant |-> FALSE, measure |-> 0, calls |-> <<>>]

Init ==
    /\ dictionary \in Lexicons
    /\ op = "idle"
    /\ pc = "none"
    /\ token = <<>>
    /\ word = <<>>
    /\ current_word = <<>>
    /\ result = <<>>
    /\ raised = FALSE
    /\ ran = <<>>
    /\ outs = <<>>
    /\ prev = <<>>
    /\ document = <<>>
    /\ words = <<>>
    /\ i = 0
    /\ stem_mappings = <<>>
    /\ stems_seen = <<>>
    /\ dpc = "none"
    /\ top_stems = <<>>
    /\ arg = <<>>
    /\ index = 0
    /\ frames = <<>>
    /\ ret = <<>>
    /\ shape = NoShape
    /\ cache = [load_dictionary |-> (<<>> :> loaded_set(1)),
                is_valid_word |-> <<>>,
                get_exceptions |-> (<<>> :> get_exceptions)]
    /\ loads = 1
    /\ used = {}
    /\ ThreadsIdle

\* the rules and shape metrics the environment calls directly, as the tests do
DirectCalls == {"is_consonant", "measure", "apply_rule_1a", "apply_rule_1b",
                "apply_rule_2", "apply_rule_4",
                "apply_rule_1c", "apply_rule_5a", "apply_rule_5b"}

(* ------------------------------------------------------------------ *)
(* stem_word                                                           *)
(* ------------------------------------------------------------------ *)

\* Mutant of is_valid_word: every word passes for a dictionary word.
is_valid_word_always(w) == TRUE

\* word_dict = load_dictionary(): the set the cache of load_dictionary holds
word_dict == cache.load_dictionary[<<>>].words

\* return word in word_dict (the wrapper's cache of answers is left out: with
\* one caller it returns what the body returns)
is_valid_word(w) == w \in word_dict

\* exception_mappings = get_exceptions(): the table the cache of get_exceptions holds
exception_mappings == cache.get_exceptions[<<>>]

\* entering stem_word(t): the parameter `word` holds the token
EnterStemWord(t) ==
    /\ pc' = "normalize"
    /\ token' = t
    /\ word' = t
    /\ current_word' = <<>>
    /\ result' = <<>>
    /\ raised' = FALSE
    /\ ran' = <<>>
    /\ outs' = <<>>

\* the environment calls stem_word(t)
CallStemWord ==
    /\ op = "idle"
    /\ \E t \in Tokens : EnterStemWord(t)
    /\ op' = "stem_word"
    /\ UNCHANGED <<processVars, unitVars, prev, docVars, top_stems>>

\* The forms of a token the test helper _check_word_stem stems next to the
\* token itself, and its capitalized form.
capitalize(t) ==
    [k \in 1..Len(t) |-> IF k = 1 THEN UpperOf[t[k]] ELSE LowerOf[t[k]]]

CaseForms(t) == {upper(t), title(t), capitalize(t)}

BoundaryForms(t) ==
    {<<c>> \o t : c \in extraneous_chars} \cup {t \o <<c>> : c \in extraneous_chars}

\* after stem_word(t) has returned, the environment stems another form of t
CallStemWordAgain ==
    /\ op = "stem_word"
    /\ pc = "done"
    /\ prev = <<>>
    /\ prev' = <<[token |-> token, result |-> result]>>
    /\ \E t \in CaseForms(token) \cup BoundaryForms(token) : EnterStemWord(t)
    /\ UNCHANGED <<processVars, unitVars, op, docVars, top_stems>>

\* word = normalize_word(word)
Normalize ==
    /\ pc = "normalize"
    /\ word' = normalize_word(word)
    /\ pc' = "check_valid"
    /\ UNCHANGED <<processVars, unitVars, op, token, current_word, result, raised, ran, outs,
                   prev, docVars, top_stems>>

\* if not is_valid_word(word): return word
ReturnNotValid ==
    /\ pc = "check_valid"
    /\ ~is_valid_word(word)
    /\ result' = word
    /\ pc' = "done"
    /\ UNCHANGED <<processVars, unitVars, op, token, word, current_word, raised, ran, outs,
                   prev, docVars, top_stems>>

IsValid ==
    /\ pc = "check_valid"
    /\ is_valid_word(word)
    /\ pc' = "check_exception"
    /\ UNCHANGED <<processVars, unitVars, op, token, word, current_word, result, raised, ran,
                   outs, prev, docVars, top_stems>>

\* Mutant of ReturnException: the entry is taken out of the table as it is
\* returned (exception_mappings.pop(word)).
ReturnException_pops ==
    /\ pc = "check_exception"
    /\ word \in DOMAIN exception_mappings
    /\ result' = exception_mappings[word]
    /\ pc' = "done"
    /\ cache' = [cache EXCEPT !.get_exceptions =
                    (<<>> :> [w \in DOMAIN exception_mappings \ {word} |->
                                 exception_mappings[w]])]
    /\ UNCHANGED <<dictionary, loads, used, threadVars, unitVars, op, token, word,
                   current_word, raised, ran, outs, prev, docVars, top_stems>>

\* if word in exception_mappings: return exception_mappings[word]
ReturnException ==
    /\ pc = "check_exception"
    /\ word \in DOMAIN exception_mappings
    /\ result' = exception_mappings[word]
    /\ pc' = "done"
    /\ UNCHANGED <<processVars, unitVars, op, token, word, current_word, raised, ran, outs,
                   prev, docVars, top_stems>>

NotException ==
    /\ pc = "check_exception"
    /\ word \notin DOMAIN exception_mappings
    /\ pc' = "check_length"
    /\ UNCHANGED <<processVars, unitVars, op, token, word, current_word, result, raised, ran,
                   outs, prev, docVars, top_stems>>

\* Mutants of too_small: the bound is off by one; only two-letter words are small.
too_small_below_two(w) == Len(w) < 2

too_small_exactly_two(w) == Len(w) = 2

\* the length test of `if len(word) <= 2: return word`
too_small(w) == Len(w) <= 2

ReturnSmall ==
    /\ pc = "check_length"
    /\ too_small(word)
    /\ result' = word
    /\ pc' = "done"
    /\ UNCHANGED <<processVars, unitVars, op, token, word, current_word, raised, ran, outs,
                   prev, docVars, top_stems>>

\* current_word = word
StartCascade ==
    /\ pc = "check_length"
    /\ ~too_small(word)
    /\ current_word' = word
    /\ pc' = "1a"
    /\ UNCHANGED <<processVars, unitVars, op, token, word, result, raised, ran, outs, prev,
                   docVars, top_stems>>

\* Mutant of remember: the stage output is kept whether or not it is a word.
remember_unchecked(new_word, candidate) == new_word

\* Mutant of remember: a stage output that is shorter is kept, a word or not.
remember_shorter(new_word, candidate) ==
    IF is_valid_word(new_word) \/ Len(new_word) < Len(candidate)
    THEN new_word ELSE candidate

\* current_word = word if is_valid_word(word) else current_word
remember(new_word, candidate) == IF is_valid_word(new_word) THEN new_word ELSE candidate

\* One stage of the cascade:
\*     word = apply_rule_X(word)
\*     current_word = word if is_valid_word(word) else current_word
\* `raises` tells whether apply_rule_X(word) raises, `output` is what it returns.
Stage(name, raises, output, next) ==
    /\ pc = name
    /\ IF raises
       THEN /\ raised' = TRUE
            /\ pc' = "raised"
            /\ UNCHANGED <<word, current_word, ran, outs>>
       ELSE /\ word' = output
            /\ current_word' = remember(output, current_word)
            /\ ran' = Append(ran, name)
            /\ outs' = Append(outs, output)
            /\ pc' = next
            /\ UNCHANGED raised
    /\ UNCHANGED <<processVars, unitVars, op, token, result, prev, docVars, top_stems>>

Stage1a == Stage("1a", FALSE, apply_rule_1a(word), "1b")

Stage1b == Stage("1b", apply_rule_1b_raises(word), apply_rule_1b(word), "1c")

\* Mutant of Stage1c: the cascade goes on with rule 3, leaving rule 2 out.
Stage1c_skips_rule_2 == Stage("1c", apply_rule_1c_raises(word), apply_rule_1c(word), "3")

Stage1c == Stage("1c", apply_rule_1c_raises(word), apply_rule_1c(word), "2")

Stage2 == Stage("2", FALSE, apply_rule_2(word), "3")

Stage3 == Stage("3", FALSE, apply_rule_3(word), "4")

Stage4 == Stage("4", apply_rule_4_raises(word), apply_rule_4(word), "5a")

Stage5a == Stage("5a", FALSE, apply_rule_5a(word), "5b")

Stage5b == Stage("5b", FALSE, apply_rule_5b(word), "return")

\* return current_word
ReturnCurrent ==
    /\ pc = "return"
    /\ result' = current_word
    /\ pc' = "done"
    /\ UNCHANGED <<processVars, unitVars, op, token, word, current_word, raised, ran, outs,
                   prev, docVars, top_stems>>

\* the environment takes the result; the next call starts from a fresh frame
Forget ==
    /\ \/ op = "stem_word" /\ pc \in {"done", "raised"}
       \/ op = "stem_document" /\ dpc = "done" /\ top_stems # <<>>
       \/ op = "get_top_stems" /\ top_stems # <<>>
       \/ op \in DirectCalls /\ (ret # <<>> \/ raised \/ op \in ShapeMetrics)
    /\ op' = "idle"
    /\ pc' = "none"
    /\ token' = <<>>
    /\ word' = <<>>
    /\ current_word' = <<>>
    /\ result' = <<>>
    /\ raised' = FALSE
    /\ ran' = <<>>
    /\ outs' = <<>>
    /\ prev' = <<>>
    /\ document' = <<>>
    /\ words' = <<>>
    /\ i' = 0
    /\ stem_mappings' = <<>>
    /\ stems_seen' = <<>>
    /\ dpc' = "none"
    /\ top_stems' = <<>>
    /\ arg' = <<>>
    /\ index' = 0
    /\ frames' = <<>>
    /\ ret' = <<>>
    /\ shape' = NoShape
    /\ UNCHANGED processVars

(* ------------------------------------------------------------------ *)
(* The rules and shape metrics called directly                         *)
(* ------------------------------------------------------------------ *)

\* longest word generated over WordAlphabet and over YAlphabet
MaxWordLen == 3

WordAlphabet == <<"i", "e", "s", "d">>

YAlphabet == <<"a", "y", "t">>

FixedWords == {
    <<"t", "r", "e", "e">>, <<"m", "o", "n", "s", "t", "e", "r">>, <<"a", "w", "a", "y">>, <<"f", "r", "e", "e", "d">>, <<"f", "o", "o">>, <<"b", "b", "c">>, <<"y", "a", "k">>, <<"a", "w", "r", "y">>,
    <<"w", "i", "l", "d", "l", "y">>, <<"a", "f", "t", "e", "r">>, <<"u", "n", "s", "o", "c", "i", "a", "l">>, <<"y", "o", "n", "d", "e", "r">>, <<"w", "a", "y", "s", "i", "d", "e">>, <<"t", "y", "y", "y", "y", "y">>,
    <<"t", "a", "l", "k", "s">>, <<"d", "i", "e", "s">>, <<"l", "i", "e", "s">>, <<"b", "e", "l", "i", "e", "s">>, <<"m", "y", "s", "t", "i", "f", "i", "e", "s">>, <<"c", "a", "r", "e", "s", "s">>, <<"m", "i", "s", "t", "r", "e", "s", "s">>,
    <<"k", "i", "s", "s", "e", "s">>, <<"m", "i", "s", "s", "e", "s">>, <<"m", "o", "n", "s", "t", "e", "r", "s">>, <<"p", "o", "n", "i", "e", "s">>,
    <<"s", "p", "i", "e", "d">>, <<"d", "i", "e", "d">>, <<"l", "i", "e", "d">>, <<"s", "u", "c", "c", "e", "e", "d">>, <<"a", "g", "r", "e", "e", "d">>, <<"b", "l", "e", "d">>, <<"b", "i", "n", "g">>,
    <<"c", "o", "n", "f", "l", "a", "t", "e", "d">>, <<"t", "r", "o", "u", "b", "l", "e", "d">>, <<"s", "i", "z", "e", "d">>, <<"h", "o", "p", "p", "i", "n", "g">>, <<"t", "a", "n", "n", "e", "d">>, <<"s", "i", "t", "t", "i", "n", "g">>,
    <<"f", "a", "l", "l", "i", "n", "g">>, <<"h", "i", "s", "s", "i", "n", "g">>, <<"f", "i", "z", "z", "e", "d">>, <<"s", "m", "i", "l", "e", "d">>, <<"f", "i", "l", "i", "n", "g">>, <<"p", "r", "o", "f", "i", "l", "e", "d">>, <<"h", "o", "u", "s", "e", "d">>,
    <<"r", "e", "l", "a", "t", "i", "o", "n", "a", "l">>, <<"c", "o", "n", "d", "i", "t", "i", "o", "n", "a", "l">>, <<"r", "a", "t", "i", "o", "n", "a", "l">>, <<"v", "a", "l", "e", "n", "c", "i">>, <<"h", "e", "s", "i", "t", "a", "n", "c", "i">>,
    <<"d", "i", "g", "i", "t", "i", "z", "e", "r">>, <<"c", "o", "n", "f", "o", "r", "m", "a", "b", "l", "i">>, <<"r", "a", "d", "i", "c", "a", "l", "l", "i">>, <<"d", "i", "f", "f", "e", "r", "e", "n", "t", "l", "i">>, <<"v", "i", "l", "e", "l", "i">>,
    <<"a", "n", "a", "l", "o", "g", "o", "u", "s", "l", "i">>, <<"v", "i", "e", "t", "n", "a", "m", "i", "z", "a", "t", "i", "o", "n">>, <<"p", "r", "e", "d", "i", "c", "a", "t", "i", "o", "n">>, <<"o", "p", "e", "r", "a", "t", "o", "r">>, <<"f", "e", "u", "d", "a", "l", "i", "s", "m">>,
    <<"d", "e", "c", "i", "s", "i", "v", "e", "n", "e", "s", "s">>, <<"h", "o", "p", "e", "f", "u", "l", "n", "e", "s", "s">>, <<"c", "a", "l", "l", "o", "u", "s", "n", "e", "s", "s">>, <<"f", "o", "r", "m", "a", "l", "i", "t", "i">>, <<"s", "e", "n", "s", "i", "t", "i", "v", "i", "t", "i">>,
    <<"s", "e", "n", "s", "i", "b", "i", "l", "i", "t", "i">>, <<"g", "e", "o", "l", "o", "g", "i">>, <<"t", "h", "e", "o", "l", "o", "g", "i">>, <<"l", "o", "g", "i">>, <<"r", "e", "l", "a", "t", "i", "o", "n", "a", "l", "l", "i">>,
    <<"c", "o", "n", "d", "i", "t", "i", "o", "n", "a", "l", "l", "i">>, <<"a", "l", "l", "i">>, <<"t", "a", "l", "l", "i">>, <<"h", "o", "p", "e", "f", "u", "l", "l", "i">>, <<"n", "o", "b", "l", "i">>, <<"p", "o", "s", "s", "i", "b", "l", "i">>,
    <<"r", "e", "v", "i", "v", "a", "l">>, <<"a", "l", "l", "o", "w", "a", "n", "c", "e">>, <<"i", "n", "f", "e", "r", "e", "n", "c", "e">>, <<"a", "i", "r", "l", "i", "n", "e", "r">>, <<"g", "y", "r", "o", "s", "c", "o", "p", "i", "c">>,
    <<"a", "d", "j", "u", "s", "t", "a", "b", "l", "e">>, <<"d", "e", "f", "e", "n", "s", "i", "b", "l", "e">>, <<"i", "r", "r", "i", "t", "a", "n", "t">>, <<"r", "e", "p", "l", "a", "c", "e", "m", "e", "n", "t">>, <<"a", "d", "j", "u", "s", "t", "m", "e", "n", "t">>,
    <<"d", "e", "p", "e", "n", "d", "e", "n", "t">>, <<"c", "e", "m", "e", "n", "t">>, <<"a", "d", "o", "p", "t", "i", "o", "n">>, <<"v", "i", "s", "i", "o", "n">>, <<"i", "o", "n">>, <<"n", "a", "t", "i", "o", "n">>,
    <<"c", "o", "m", "m", "u", "n", "i", "o", "n">>, <<"h", "o", "m", "o", "l", "o", "g", "o", "u">>, <<"c", "o", "m", "m", "u", "n", "i", "s", "m">>, <<"a", "c", "t", "i", "v", "a", "t", "e">>, <<"a", "n", "g", "u", "l", "a", "r", "i", "t", "i">>,
    <<"h", "o", "m", "o", "l", "o", "g", "o", "u", "s">>, <<"e", "f", "f", "e", "c", "t", "i", "v", "e">>, <<"b", "o", "w", "d", "l", "e", "r", "i", "z", "e">>,
    <<"h", "a", "p", "p", "y">>, <<"s", "c", "r", "a", "p", "p", "y">>, <<"p", "a", "y">>, <<"b", "u", "y">>, <<"s", "k", "y">>, <<"e", "n", "j", "o", "y">>,
    <<"r", "e", "t", "a", "l", "i", "a", "t", "e">>, <<"p", "r", "o", "b", "a", "t", "e">>, <<"r", "a", "t", "e">>, <<"g", "r", "e", "a", "s", "e">>, <<"c", "e", "a", "s", "e">>, <<"e", "e">>,
    <<"c", "o", "n", "t", "r", "o", "l", "l">>, <<"c", "o", "m", "p", "e", "l", "l">>, <<"r", "o", "l", "l">>, <<"m", "i", "l", "l">>, <<"l", "l">> }

\* the lower-case words the rules and shape metrics are called with
Words ==
    FixedWords \cup TextsUpTo(WordAlphabet, MaxWordLen) \cup TextsUpTo(YAlphabet, MaxWordLen)

\* a direct call of a rule that is over at once: its argument, the word it
\* returned or whether it raised
DirectCall(name, w, k, raises, value) ==
    /\ op' = name
    /\ arg' = w
    /\ index' = k
    /\ frames' = <<>>
    /\ raised' = raises
    /\ ret' = IF raises THEN <<>> ELSE <<value>>
    /\ UNCHANGED <<processVars, shape, pc, token, word, current_word, result, ran, outs,
                   prev, docVars, top_stems>>

CallIsConsonant ==
    /\ op = "idle"
    /\ op' = "is_consonant"
    /\ \E w \in Words : \E k \in 0..(Len(w) - 1) :
          /\ arg' = w
          /\ index' = k
          /\ raised' = is_consonant_raises(w, k)
          /\ shape' = IF is_consonant_raises(w, k) THEN NoShape
                       ELSE [NoShape EXCEPT !.is_consonant = is_consonant(w, k),
                                            !.calls = is_consonant_calls(w, k)]
    /\ UNCHANGED <<processVars, frames, ret, pc, token, word, current_word, result, ran, outs,
                   prev, docVars, top_stems>>

CallMeasure ==
    /\ op = "idle"
    /\ op' = "measure"
    /\ \E w \in Words :
          /\ arg' = w
          /\ shape' = [NoShape EXCEPT !.measure = measure(w)]
    /\ UNCHANGED <<processVars, index, frames, ret, wordVars, prev, docVars, top_stems>>

CallApplyRule1a ==
    /\ op = "idle"
    /\ \E w \in Words : DirectCall("apply_rule_1a", w, 0, FALSE, apply_rule_1a(w))

CallApplyRule1b ==
    /\ op = "idle"
    /\ \E w \in Words :
          DirectCall("apply_rule_1b", w, 0, apply_rule_1b_raises(w), apply_rule_1b(w))

CallApplyRule4 ==
    /\ op = "idle"
    /\ \E w \in Words :
          DirectCall("apply_rule_4", w, 0, apply_rule_4_raises(w), apply_rule_4(w))

CallApplyRule1c ==
    /\ op = "idle"
    /\ \E w \in Words :
          DirectCall("apply_rule_1c", w, 0, apply_rule_1c_raises(w), apply_rule_1c(w))

CallApplyRule5a ==
    /\ op = "idle"
    /\ \E w \in Words : DirectCall("apply_rule_5a", w, 0, FALSE, apply_rule_5a(w))

CallApplyRule5b ==
    /\ op = "idle"
    /\ \E w \in Words : DirectCall("apply_rule_5b", w, 0, FALSE, apply_rule_5b(w))

\* apply_rule_2(w) is entered
CallApplyRule2 ==
    /\ op = "idle"
    /\ op' = "apply_rule_2"
    /\ \E w \in Words :
          /\ arg' = w
          /\ frames' = <<w>>
    /\ ret' = <<>>
    /\ UNCHANGED <<processVars, wordVars, prev, docVars, top_stems, index, shape>>

\* return apply_rule_2(word[:-2]): the self-call is entered
Rule2SelfCall ==
    /\ op = "apply_rule_2"
    /\ ret = <<>>
    /\ rule_2_recurses(frames[Len(frames)])
    /\ frames' = Append(frames, DropLast(frames[Len(frames)], 2))
    /\ UNCHANGED <<processVars, op, wordVars, prev, docVars, top_stems, arg, index, ret, shape>>

\* the innermost call returns and every call open above it returns its value
Rule2Return ==
    /\ op = "apply_rule_2"
    /\ ret = <<>>
    /\ ~rule_2_recurses(frames[Len(frames)])
    /\ ret' = <<rule_2_suffixes(frames[Len(frames)])>>
    /\ UNCHANGED <<processVars, op, wordVars, prev, docVars, top_stems, arg, index,
                   frames, shape>>

(* ------------------------------------------------------------------ *)
(* stem_document                                                       *)
(* ------------------------------------------------------------------ *)

whitespace == {" ", "\t", "\n", "\r"}

\* str.split() without arguments: the maximal runs of non-whitespace characters
RECURSIVE split_from(_, _, _)
split_from(text, k, run) ==
    IF k > Len(text) THEN (IF run = <<>> THEN <<>> ELSE <<run>>)
    ELSE IF text[k] \in whitespace
         THEN (IF run = <<>> THEN <<>> ELSE <<run>>) \o split_from(text, k + 1, <<>>)
         ELSE split_from(text, k + 1, Append(run, text[k]))

split(text) == split_from(text, 1, <<>>)

\* A dict is the sequence of its <<key, value>> items in insertion order.
dict_keys(d) == [k \in 1..Len(d) |-> d[k][1]]

dict_has(d, key) == \E k \in 1..Len(d) : d[k][1] = key

\* d[key] for a key of d
dict_at(d, key) == d[CHOOSE k \in 1..Len(d) : d[k][1] = key][2]

\* d.get(key, default)
dict_get(d, key, default) == IF dict_has(d, key) THEN dict_at(d, key) ELSE default

\* d[key] = value: a new key goes last, an old key keeps its place
dict_set(d, key, value) ==
    IF dict_has(d, key)
    THEN [d EXCEPT ![CHOOSE k \in 1..Len(d) : d[k][1] = key] = <<key, value>>]
    ELSE Append(d, <<key, value>>)

DocAlphabet == <<"s", "S", " ", "!">>

FixedDocuments == {
    <<"G", "o", " ", "e", "f", "f", "e", "c", "t", "i", "v", "e", " ", "h", "a", "p", "p", "i", "n", "e", "s", "s", " ", "g", "o", "i", "n", "g", " ", "c", "o", "n", "t", "r", "o", "l", "l", "e", "d", "?">>,
    <<"A", "B", "C", " ", "a", "b", "C", "!", "?", " ", "W", "h", "a", "t", "?", " ", "H", "o", "W", "!", " ", "T", "a", "l", "k", " ", "t", "a", "l", "k", "s", " ", "c", "o", "l", "l", "a", "b", "o", "r", "a", "t", "e">>,
    <<"S", "u", "p", "p", "o", "s", "e", "d", " ", "p", "e", "o", "p", "l", "e", " ", "s", "u", "p", "p", "o", "s", "e", " ", "t", "h", "a", "t", " ", "e", "l", "a", "b", "o", "r", "a", "t", "i", "n", "g", " ", "i", "s", " ", "e", "l", "a", "b", "o", "r", "a", "t", "e">>,
    <<"t", "a", "l", "k", "s", " ", " ", "t", "a", "l", "k", "e", "d", "\t", "T", "a", "l", "k", "i", "n", "g", "\n", "t", "a", "l", "k", "!", " ", "r", "e", "l", "a", "t", "i", "o", "n", "a", "l", " ", "m", "o", "n", "s", "t", "e", "r", "s", " ", "T", "a", "l", "k">>,
    <<" ", "\t", "\n", " ">> }

Documents == FixedDocuments \cup TextsUpTo(DocAlphabet, MaxDocLen)

\* stem_mappings = {}; words = document.split()
CallStemDocument ==
    /\ op = "idle"
    /\ \E d \in Documents :
          /\ document' = d
          /\ words' = split(d)
    /\ op' = "stem_document"
    /\ stem_mappings' = <<>>
    /\ stems_seen' = <<>>
    /\ i' = 0
    /\ dpc' = "loop"
    /\ UNCHANGED <<processVars, unitVars, wordVars, prev, top_stems>>

\* for word in words: stem = stem_word(word) -- the call
DocCallStemWord ==
    /\ dpc = "loop"
    /\ i < Len(words)
    /\ pc = "none"
    /\ EnterStemWord(words[i + 1])
    /\ dpc' = "call"
    /\ UNCHANGED <<processVars, unitVars, op, prev, document, words, i, stem_mappings,
                   stems_seen, top_stems>>

\* Mutant of store: the word is put in front of the list instead of at its end.
store_in_front(mappings, stem, original) ==
    dict_set(mappings, stem, <<original>> \o dict_get(mappings, stem, <<>>))

\* the body of stem_document's loop once stem_word has returned `stem`
store(mappings, stem, original) ==
    dict_set(mappings, stem, dict_get(mappings, stem, <<>>) \o <<original>>)

\* stem_mappings[stem] = stem_mappings.get(stem, []) + [word]
DocStore ==
    /\ dpc = "call"
    /\ pc = "done"
    /\ stem_mappings' = store(stem_mappings, result, words[i + 1])
    /\ stems_seen' = Append(stems_seen, result)
    /\ i' = i + 1
    /\ dpc' = "loop"
    /\ pc' = "none"
    /\ token' = <<>>
    /\ word' = <<>>
    /\ current_word' = <<>>
    /\ result' = <<>>
    /\ ran' = <<>>
    /\ outs' = <<>>
    /\ UNCHANGED <<processVars, unitVars, op, raised, prev, document, words, top_stems>>

\* return stem_mappings
DocReturn ==
    /\ dpc = "loop"
    /\ i = Len(words)
    /\ dpc' = "done"
    /\ UNCHANGED <<processVars, unitVars, op, wordVars, prev, document, words, i, stem_mappings,
                   stems_seen, top_stems>>

(* ------------------------------------------------------------------ *)
(* get_top_stems                                                       *)
(* ------------------------------------------------------------------ *)

\* stem_counts[stem]
stem_count(mappings, stem) == Len(dict_at(mappings, stem))

\* Mutant of sort_key: stems are ranked by count alone.
sort_key_count_only(mappings, stem) == <<stem_count(mappings, stem), <<>> >>

\* the sort key of a stem: lambda k: (stem_counts[k], k)
sort_key(mappings, stem) == <<stem_count(mappings, stem), stem>>

\* a < b for two (count, text) tuples
key_less(a, b) == a[1] < b[1] \/ (a[1] = b[1] /\ TextLess(a[2], b[2]))

\* list.sort(key=..., reverse=True) is stable: an element goes after every
\* element already placed whose key is not smaller than its own.
RECURSIVE sort_reverse(_, _, _)
sort_reverse(mappings, todo, placed) ==
    IF todo = <<>> THEN placed
    ELSE LET x == Head(todo)
             before == {k \in 1..Len(placed) :
                          ~key_less(sort_key(mappings, placed[k]), sort_key(mappings, x))}
             n == Cardinality(before)
         IN  sort_reverse(mappings, Tail(todo),
                          SubSeq(placed, 1, n) \o <<x>> \o SubSeq(placed, n + 1, Len(placed)))

\* Mutant of get_top_stems: the ranking is cut after its 25th stem.
get_top_stems_first_25(mappings) ==
    LET stems == sort_reverse(mappings, dict_keys(mappings), <<>>)
        n == IF Len(stems) > 25 THEN 25 ELSE Len(stems)
    IN  [k \in 1..n |-> <<stems[k], stem_count(mappings, stems[k])>>]

get_top_stems(mappings) ==
    LET stems == sort_reverse(mappings, dict_keys(mappings), <<>>)
        pair(k) == <<stems[k], stem_count(mappings, stems[k])>>
    IN  IF Len(stems) > 25
        THEN LET bottom_count == Len(dict_at(mappings, stems[25]))
                 kept == SelectSeq([k \in 1..Len(stems) |-> k],
                                   LAMBDA k : stem_count(mappings, stems[k]) >= bottom_count)
             IN  [k \in 1..Len(kept) |-> pair(kept[k])]
        ELSE [k \in 1..Len(stems) |-> pair(k)]

StemKeys == << <<"a", "b">>, <<"b">>, <<"a">>, <<>> >>

\* a list of n tokens
tokens_list(n) == [k \in 1..n |-> <<"a">>]

\* the mappings of at most n stems over StemKeys, in every insertion order,
\* each stem listing at most MaxCount tokens
RECURSIVE MappingsUpTo(_)
MappingsUpTo(n) ==
    IF n = 0 THEN {<<>>}
    ELSE LET shorter == MappingsUpTo(n - 1)
         IN  shorter \cup
             {Append(m, <<StemKeys[k], tokens_list(c)>>) :
                 m \in {s \in shorter : Len(s) = n - 1},
                 k \in 1..Len(StemKeys), c \in 0..MaxCount}

decimal_digits == <<"0", "1", "2", "3", "4", "5", "6", "7", "8", "9">>

\* "{i}".format(i=n)
RECURSIVE decimal(_)
decimal(n) ==
    IF n < 10 THEN <<decimal_digits[n + 1]>>
    ELSE decimal(n \div 10) \o <<decimal_digits[(n % 10) + 1]>>

\* the mapping of the tests test_filter_mappings and test_keep_mappings:
\* "stem<i>" lists i tokens, for i in range(26)
filter_mappings == [k \in 1..26 |-> <<<<"s", "t", "e", "m">> \o decimal(k - 1), tokens_list(k - 1)>>]

keep_mappings == dict_set(filter_mappings, <<"s", "t", "e", "m", "0">>, tokens_list(1))

few_mappings == << <<<<"s", "t", "e", "m", "1">>, tokens_list(2)>>, <<<<"s", "t", "e", "m", "2">>, tokens_list(3)>> >>

\* mappings of 27 stems: the 26 of filter_mappings and "stem26"; "stem26" and
\* one of the stems around the cutoff, or the top stem "stem25", list any number
\* of tokens up to MaxCount
wide_mappings ==
    {dict_set(Append(filter_mappings, <<<<"s", "t", "e", "m", "2", "6">>, tokens_list(c)>>),
              <<"s", "t", "e", "m">> \o decimal(j), tokens_list(d)) :
        j \in (0..MaxCount) \cup {25}, c \in 0..MaxCount, d \in 0..MaxCount}

Mappings ==
    {m \in MappingsUpTo(MaxStems) :
        \A j, k \in 1..Len(m) : j # k => m[j][1] # m[k][1]}
    \cup {filter_mappings, keep_mappings, few_mappings}
    \cup wide_mappings

\* the environment calls get_top_stems(m)
CallGetTopStems ==
    /\ op = "idle"
    /\ \E m \in Mappings :
          /\ stem_mappings' = m
          /\ top_stems' = <<get_top_stems(m)>>
    /\ op' = "get_top_stems"
    /\ UNCHANGED <<processVars, unitVars, wordVars, prev, document, words, i, stems_seen, dpc>>

\* the web application ranks the mapping stem_document returned:
\*     matches = stem_document(document); top_stems = get_top_stems(matches)
TopStemsOfDocument ==
    /\ op = "stem_document"
    /\ dpc = "done"
    /\ top_stems = <<>>
    /\ top_stems' = <<get_top_stems(stem_mappings)>>
    /\ UNCHANGED <<processVars, unitVars, op, wordVars, prev, docVars>>

(* ------------------------------------------------------------------ *)
(* Specification                                                       *)
(* ------------------------------------------------------------------ *)

Next ==
    \/ CallStemWord
    \/ CallStemWordAgain
    \/ Normalize
    \/ ReturnNotValid
    \/ IsValid
    \/ ReturnException
    \/ NotException
    \/ ReturnSmall
    \/ StartCascade
    \/ Stage1a
    \/ Stage1b
    \/ Stage1c
    \/ Stage2
    \/ Stage3
    \/ Stage4
    \/ Stage5a
    \/ Stage5b
    \/ ReturnCurrent
    \/ CallStemDocument
    \/ DocCallStemWord
    \/ DocStore
    \/ DocReturn
    \/ CallGetTopStems
    \/ TopStemsOfDocument
    \/ CallIsConsonant
    \/ CallMeasure
    \/ CallApplyRule1a
    \/ CallApplyRule1b
    \/ CallApplyRule2
    \/ Rule2SelfCall
    \/ Rule2Return
    \/ CallApplyRule4
    \/ CallApplyRule1c
    \/ CallApplyRule5a
    \/ CallApplyRule5b
    \/ Forget

Spec == Init /\ [][Next]_vars

\* the statements a call under way executes by itself: Python runs a call to
\* its return, whatever the environment does
Run ==
    \/ Normalize
    \/ ReturnNotValid
    \/ IsValid
    \/ ReturnException
    \/ NotException
    \/ ReturnSmall
    \/ StartCascade
    \/ Stage1a
    \/ Stage1b
    \/ Stage1c
    \/ Stage2
    \/ Stage3
    \/ Stage4
    \/ Stage5a
    \/ Stage5b
    \/ ReturnCurrent
    \/ DocCallStemWord
    \/ DocStore
    \/ DocReturn
    \/ Rule2SelfCall
    \/ Rule2Return

\* the process whose dictionary.txt holds every word of the model
LiveInit == Init /\ dictionary = UNION Lexicons

\* the program with its calls run to the end
LiveSpec == LiveInit /\ [][Next]_vars /\ WF_vars(Run)

(* ------------------------------------------------------------------ *)
(* memoize: concurrent callers of is_valid_word                        *)
(*                                                                     *)
(* Threads call is_valid_word(w), as stem_word does for each word; the *)
(* process starts with both caches empty.  A step is one access to a   *)
(* cache or one run of a function body, which is where the interpreter *)
(* may switch threads (the file read of load_dictionary releases the   *)
(* interpreter lock).                                                  *)
(* ------------------------------------------------------------------ *)

\* the calls one thread may make
MaxCalls == 2

\* the words the threads check: one of every dictionary, one of none
MemoWords == { <<"t", "a", "l", "k">>, <<"a", "b", "c", "d", "e", "f", "g">> }

\* key not in cache
memo_has(c, key) == key \in DOMAIN c

\* cache[key] = value
memo_store(c, key, value) ==
    [k \in DOMAIN c \cup {key} |-> IF k = key THEN value ELSE c[k]]

MemoInit ==
    /\ dictionary \in Lexicons
    /\ op = "idle"
    /\ pc = "none"
    /\ token = <<>>
    /\ word = <<>>
    /\ current_word = <<>>
    /\ result = <<>>
    /\ raised = FALSE
    /\ ran = <<>>
    /\ outs = <<>>
    /\ prev = <<>>
    /\ document = <<>>
    /\ words = <<>>
    /\ i = 0
    /\ stem_mappings = <<>>
    /\ stems_seen = <<>>
    /\ dpc = "none"
    /\ top_stems = <<>>
    /\ arg = <<>>
    /\ index = 0
    /\ frames = <<>>
    /\ ret = <<>>
    /\ shape = NoShape
    /\ cache = [load_dictionary |-> <<>>, is_valid_word |-> <<>>, get_exceptions |-> <<>>]
    /\ loads = 0
    /\ used = {}
    /\ ThreadsIdle

\* thread t calls is_valid_word(w): wrapper(w) is entered
CallIsValidWord(t) ==
    /\ tpc[t] = "idle"
    /\ calls[t] < MaxCalls
    /\ \E w \in MemoWords : tword' = [tword EXCEPT ![t] = w]
    /\ calls' = [calls EXCEPT ![t] = @ + 1]
    /\ tpc' = [tpc EXCEPT ![t] = "valid_check"]
    /\ UNCHANGED <<dictionary, memoVars, tval, tans, callVars>>

\* wrapper of is_valid_word: if key not in cache
ValidCheck(t) ==
    /\ tpc[t] = "valid_check"
    /\ tpc' = [tpc EXCEPT ![t] = IF memo_has(cache.is_valid_word, <<tword[t]>>)
                                  THEN "valid_return" ELSE "load_check"]
    /\ UNCHANGED <<dictionary, memoVars, tword, tval, tans, calls, callVars>>

\* is_valid_word calls load_dictionary(); its wrapper: if key not in cache
LoadCheck(t) ==
    /\ tpc[t] = "load_check"
    /\ tpc' = [tpc EXCEPT ![t] = IF memo_has(cache.load_dictionary, <<>>)
                                  THEN "load_return" ELSE "load_body"]
    /\ UNCHANGED <<dictionary, memoVars, tword, tval, tans, calls, callVars>>

\* the body of load_dictionary: the file is read into a new set
LoadBody(t) ==
    /\ tpc[t] = "load_body"
    /\ loads' = loads + 1
    /\ tval' = [tval EXCEPT ![t] = loaded_set(loads + 1)]
    /\ tpc' = [tpc EXCEPT ![t] = "load_store"]
    /\ UNCHANGED <<dictionary, cache, used, tword, tans, calls, callVars>>

\* cache[key] = f(*args, **kwargs), the assignment
LoadStore(t) ==
    /\ tpc[t] = "load_store"
    /\ cache' = [cache EXCEPT !.load_dictionary = memo_store(@, <<>>, tval[t])]
    /\ tpc' = [tpc EXCEPT ![t] = "load_return"]
    /\ UNCHANGED <<dictionary, loads, used, tword, tval, tans, calls, callVars>>

\* return cache[key]; word_dict = load_dictionary()
LoadReturn(t) ==
    /\ tpc[t] = "load_return"
    /\ tval' = [tval EXCEPT ![t] = cache.load_dictionary[<<>>]]
    /\ tpc' = [tpc EXCEPT ![t] = "valid_body"]
    /\ UNCHANGED <<dictionary, memoVars, tword, tans, calls, callVars>>

\* return word in word_dict
ValidBody(t) ==
    /\ tpc[t] = "valid_body"
    /\ tans' = [tans EXCEPT ![t] = tword[t] \in tval[t].words]
    /\ used' = used \cup {tval[t].id}
    /\ tpc' = [tpc EXCEPT ![t] = "valid_store"]
    /\ UNCHANGED <<dictionary, cache, loads, tword, tval, calls, callVars>>

\* cache[key] = f(*args, **kwargs), the assignment
ValidStore(t) ==
    /\ tpc[t] = "valid_store"
    /\ cache' = [cache EXCEPT !.is_valid_word = memo_store(@, <<tword[t]>>, tans[t])]
    /\ tpc' = [tpc EXCEPT ![t] = "valid_return"]
    /\ UNCHANGED <<dictionary, loads, used, tword, tval, tans, calls, callVars>>

\* return cache[key]: the call is over and its locals are gone
ValidReturn(t) ==
    /\ tpc[t] = "valid_return"
    /\ tpc' = [tpc EXCEPT ![t] = "idle"]
    /\ tword' = [tword EXCEPT ![t] = <<>>]
    /\ tval' = [tval EXCEPT ![t] = <<>>]
    /\ tans' = [tans EXCEPT ![t] = FALSE]
    /\ UNCHANGED <<dictionary, memoVars, calls, callVars>>

MemoNext ==
    \/ \E t \in Threads : CallIsValidWord(t)
    \/ \E t \in Threads : ValidCheck(t)
    \/ \E t \in Threads : LoadCheck(t)
    \/ \E t \in Threads : LoadBody(t)
    \/ \E t \in Threads : LoadStore(t)
    \/ \E t \in Threads : LoadReturn(t)
    \/ \E t \in Threads : ValidBody(t)
    \/ \E t \in Threads : ValidStore(t)
    \/ \E t \in Threads : ValidReturn(t)

MemoSpec == MemoInit /\ [][MemoNext]_vars

(* ------------------------------------------------------------------ *)
(* Properties                                                          *)
(* ------------------------------------------------------------------ *)

\* a call of stem_word has returned
Returned == pc = "done"

\* the normalized form of the token of the current call
normalized == normalize_word(token)

AllStages == <<"1a", "1b", "1c", "2", "3", "4", "5a", "5b">>

\* the raw outputs of the eight stages, each applied to the output of the one before
CascadeOutputs(w) ==
    LET o1 == apply_rule_1a(w)
        o2 == apply_rule_1b(o1)
        o3 == apply_rule_1c(o2)
        o4 == apply_rule_2(o3)
        o5 == apply_rule_3(o4)
        o6 == apply_rule_4(o5)
        o7 == apply_rule_5a(o6)
        o8 == apply_rule_5b(o7)
    IN  <<o1, o2, o3, o4, o5, o6, o7, o8>>

\* the latest of the outputs that is a dictionary word, or w when none is
LatestWord(w, outputs) ==
    LET good == {k \in 1..Len(outputs) : outputs[k] \in dictionary}
    IN  IF good = {} THEN w ELSE outputs[CHOOSE k \in good : \A j \in good : k >= j]

InCascadeCase(w) == w \in dictionary /\ w \notin DOMAIN get_exceptions /\ Len(w) > 2

\* C1: for a token whose normalized form is a dictionary word, no exception key
\* and longer than 2, stem_word has applied the stages 1a, 1b, 1c, 2, 3, 4, 5a, 5b
\* in that order, each to the raw output of the one before, and returns the
\* latest stage output that is a dictionary word, or the normalized word if none is.
C1_CascadeResult ==
    (Returned /\ InCascadeCase(normalized)) =>
        /\ ran = AllStages
        /\ outs = CascadeOutputs(normalized)
        /\ result = LatestWord(normalized, CascadeOutputs(normalized))

\* C1's case: the word returned is the output of a middle stage, the stages
\* after it went on from a raw output that is no dictionary word
C1_Witness ==
    /\ Returned
    /\ InCascadeCase(normalized)
    /\ result # normalized
    /\ result # outs[8]
    /\ \E k \in 1..7 : outs[k] \notin dictionary /\ outs[k + 1] # outs[k]
                        /\ outs[k + 1] \in dictionary

\* C2: for a token whose normalized form is no dictionary word, stem_word returns
\* exactly the normalized form and applies no stage to it.
C2_OutOfVocabulary ==
    (Returned /\ normalized \notin dictionary) =>
        /\ result = normalized
        /\ ran = <<>>

\* C2's case: a token that normalization changes and that rule 1a would rewrite
C2_Witness ==
    /\ Returned
    /\ normalized \notin dictionary
    /\ normalized # token
    /\ Len(normalized) > 2
    /\ apply_rule_1a(normalized) # normalized

\* the (word, stem) pairs of the exception table
ExceptionPairs ==
    UNION {{<<exceptions_reversed[k][2][j], exceptions_reversed[k][1]>> :
               j \in 1..Len(exceptions_reversed[k][2])} :
           k \in 1..Len(exceptions_reversed)}

C4_CaseInvariance ==
    (Returned /\ prev # <<>> /\ token \in CaseForms(prev[1].token)) =>
        result = prev[1].result

\* C4's case: the upper-cased form of a token the cascade shortens
C4_Witness ==
    /\ Returned
    /\ prev # <<>>
    /\ token = upper(prev[1].token)
    /\ token # prev[1].token
    /\ ran = AllStages
    /\ result # normalized

\* C5: for every extraneous character c, stem_word(c + t) and stem_word(t + c)
\* equal stem_word(t).
C5_BoundaryInvariance ==
    (Returned /\ prev # <<>> /\ token \in BoundaryForms(prev[1].token)) =>
        result = prev[1].result

\* C5's case: an extraneous character put in front of a token the cascade shortens
C5_Witness ==
    /\ Returned
    /\ prev # <<>>
    /\ \E c \in extraneous_chars : token = <<c>> \o prev[1].token
    /\ ran = AllStages
    /\ result # normalized

\* C6: stem_word never raises; a token whose normalized form is empty is returned
\* as the empty text with no stage applied to it (so no letter of it is indexed),
\* whether or not the empty text is in the dictionary.
C6_NeverRaises ==
    /\ ~raised
    /\ pc # "raised"
    /\ (Returned /\ normalized = <<>>) => (result = <<>> /\ ran = <<>>)

\* C6's case: a token made only of extraneous characters, the empty text being
\* a dictionary word
C6_Witness ==
    /\ Returned
    /\ token # <<>>
    /\ normalized = <<>>
    /\ <<>> \in dictionary

\* C7 as stated: stem_word returns a non-empty text for every non-empty token.
C7_NonEmptyForNonEmpty == (Returned /\ token # <<>>) => result # <<>>

\* C7, amended: stem_word returns a non-empty text for every token whose
\* normalized form is non-empty.
C7_NonEmptyForNormalized == (Returned /\ normalized # <<>>) => result # <<>>

\* C7's case: a token the cascade has worked on, the empty text being a
\* dictionary word
C7_Witness ==
    /\ Returned
    /\ normalized # <<>>
    /\ normalized # token
    /\ <<>> \in dictionary
    /\ ran = AllStages
    /\ Len(outs[8]) = 1

\* C8: for a token whose normalized form is a dictionary word, no exception key
\* and of length <= 2, stem_word returns the normalized word and applies no stage.
C8_SmallWord ==
    (/\ Returned
     /\ normalized \in dictionary
     /\ normalized \notin DOMAIN get_exceptions
     /\ Len(normalized) <= 2) =>
        /\ result = normalized
        /\ ran = <<>>

\* C8's case: a two-letter dictionary word that rule 1a would shorten
C8_Witness ==
    /\ Returned
    /\ normalized \in dictionary
    /\ Len(normalized) = 2
    /\ normalized # token
    /\ apply_rule_1a(normalized) # normalized

\* what stem_word returns for a token, as C1, C2, C3 and C8 state it
stem_of(t) ==
    LET w == normalize_word(t)
    IN  IF w \notin dictionary THEN w
        ELSE IF w \in DOMAIN get_exceptions THEN get_exceptions[w]
        ELSE IF Len(w) <= 2 THEN w
        ELSE LatestWord(w, CascadeOutputs(w))

\* the places of a text where a whitespace-separated token starts
TokenStarts(text) ==
    {a \in 1..Len(text) :
        text[a] \notin whitespace /\ (a = 1 \/ text[a - 1] \in whitespace)}

\* the token starting at a: it runs up to the next whitespace or the end
TokenAt(text, a) ==
    LET stops == {b \in a..Len(text) :
                     /\ \A k \in a..b : text[k] \notin whitespace
                     /\ (b = Len(text) \/ text[b + 1] \in whitespace)}
    IN  SubSeq(text, a, CHOOSE b \in stops : TRUE)

\* the whitespace-separated tokens of a text, in document order
TokensOf(text) ==
    LET starts == TokenStarts(text)
        nth(k) == CHOOSE a \in starts : Cardinality({b \in starts : b < a}) = k - 1
    IN  [k \in 1..Cardinality(starts) |-> TokenAt(text, nth(k))]

\* the tokens of a sequence whose stem is s, in order
WithStem(toks, s) == SelectSeq(toks, LAMBDA t : stem_of(t) = s)

RECURSIVE SumLen(_, _)
SumLen(d, k) == IF k = 0 THEN 0 ELSE Len(d[k][2]) + SumLen(d, k - 1)

\* C9: stem_document(text) returns a mapping whose keys are exactly the stems of
\* the whitespace-separated tokens of text, each key listing exactly the tokens
\* with that stem, as written, in document order and with repeats; so no list is
\* empty, the lists hold as many tokens as the document, and a document without
\* tokens gives the empty mapping.
C9_StemDocument ==
    (op = "stem_document" /\ dpc = "done") =>
        LET toks == TokensOf(document)
        IN  /\ {stem_mappings[k][1] : k \in 1..Len(stem_mappings)}
                  = {stem_of(toks[k]) : k \in 1..Len(toks)}
            /\ \A j, k \in 1..Len(stem_mappings) :
                  j # k => stem_mappings[j][1] # stem_mappings[k][1]
            /\ \A k \in 1..Len(stem_mappings) :
                  /\ stem_mappings[k][2] = WithStem(toks, stem_mappings[k][1])
                  /\ stem_mappings[k][2] # <<>>
            /\ SumLen(stem_mappings, Len(stem_mappings)) = Len(toks)
            /\ (toks = <<>> => stem_mappings = <<>>)

\* C9's case: a document with several stems, one of them listing two different tokens
C9_Witness ==
    /\ op = "stem_document"
    /\ dpc = "done"
    /\ Len(stem_mappings) >= 2
    /\ \E k \in 1..Len(stem_mappings) :
          /\ Len(stem_mappings[k][2]) >= 2
          /\ stem_mappings[k][2][1] # stem_mappings[k][2][2]
          /\ stem_mappings[k][2][1] # stem_mappings[k][1]

\* every order of the items of a mapping with at most 4 stems; for a larger
\* mapping, its items reversed and rotated by one
RECURSIVE Orders(_)
Orders(d) ==
    IF d = <<>> THEN {<<>>}
    ELSE UNION {{<<d[k]>> \o rest :
                   rest \in Orders(SubSeq(d, 1, k - 1) \o SubSeq(d, k + 1, Len(d)))} :
                k \in 1..Len(d)}

KeyOrders(d) ==
    IF Len(d) <= 4 THEN Orders(d)
    ELSE {[k \in 1..Len(d) |-> d[Len(d) + 1 - k]], Tail(d) \o <<Head(d)>>}

\* C10: get_top_stems returns (stem, count) pairs, count being the number of
\* tokens listed for the stem, ordered by count descending and, among equal
\* counts, by stem text descending; the counts never increase along the output,
\* and the output is the same for every key order of the mapping.
C10_TopStemsOrder ==
    top_stems # <<>> =>
        LET ranked == top_stems[1]
        IN  /\ \A k \in 1..Len(ranked) :
                  /\ dict_has(stem_mappings, ranked[k][1])
                  /\ ranked[k][2] = Len(dict_at(stem_mappings, ranked[k][1]))
            /\ \A k \in 1..(Len(ranked) - 1) :
                  \/ ranked[k][2] > ranked[k + 1][2]
                  \/ /\ ranked[k][2] = ranked[k + 1][2]
                     /\ TextLess(ranked[k + 1][1], ranked[k][1])
            /\ \A k \in 1..(Len(ranked) - 1) : ranked[k][2] >= ranked[k + 1][2]
            /\ \A d \in KeyOrders(stem_mappings) : get_top_stems(d) = ranked

\* C10's case: stems with equal counts that the mapping holds in ascending order
C10_Witness ==
    /\ top_stems # <<>>
    /\ Len(top_stems[1]) >= 3
    /\ \E k \in 1..(Len(top_stems[1]) - 1) : top_stems[1][k][2] = top_stems[1][k + 1][2]
    /\ \E j, k \in 1..Len(stem_mappings) :
          /\ j < k
          /\ Len(stem_mappings[j][2]) = Len(stem_mappings[k][2])
          /\ TextLess(stem_mappings[j][1], stem_mappings[k][1])

\* the stems of the mapping get_top_stems was given
MappingStems == {stem_mappings[k][1] : k \in 1..Len(stem_mappings)}

\* the count of the 25th-ranked stem of a mapping with at least 25 stems: fewer
\* than 25 stems list more tokens, at least 25 list as many or more
IsCutoff(c) ==
    /\ Cardinality({s \in MappingStems : Len(dict_at(stem_mappings, s)) > c}) < 25
    /\ Cardinality({s \in MappingStems : Len(dict_at(stem_mappings, s)) >= c}) >= 25

\* C11: for a mapping with more than 25 stems get_top_stems returns exactly the
\* stems whose count is >= the count of the 25th-ranked stem (at least 25 entries,
\* more when stems tie with the 25th, none with a smaller count); for a mapping
\* with 25 or fewer stems it returns every stem; no stem is returned twice.
C11_TopStemsCutoff ==
    top_stems # <<>> =>
        LET ranked == top_stems[1]
            returned == {ranked[k][1] : k \in 1..Len(ranked)}
        IN  /\ Len(ranked) = Cardinality(returned)
            /\ IF Len(stem_mappings) > 25
               THEN /\ Len(ranked) >= 25
                    /\ \E c \in 0..(MaxCount + 25) :
                          /\ IsCutoff(c)
                          /\ returned = {s \in MappingStems :
                                            Len(dict_at(stem_mappings, s)) >= c}
               ELSE returned = MappingStems

\* C11's case: a tie with the 25th stem takes the result past 25 entries while
\* a stem with a smaller count is left out
C11_Witness ==
    /\ top_stems # <<>>
    /\ Len(stem_mappings) > 25
    /\ Len(top_stems[1]) > 25
    /\ Len(top_stems[1]) < Len(stem_mappings)

\* C12 as stated: whatever the interleaving of the callers, the body of
\* load_dictionary runs at most once, has run once a membership test is made,
\* and every membership test is made on the one set it built.
C12_LoadedOnce ==
    /\ loads <= 1
    /\ used \subseteq {1}
    /\ (used # {} => loads = 1)

\* a direct call of the function `name` has returned
Called(name) == op = name /\ ~raised /\ (ret # <<>> \/ name \in ShapeMetrics)

\* C13: measure(s) is the number of positions i with letter i a vowel (not
\* is_consonant(s, i)) and letter i+1 a consonant; measure("tree") = 0,
\* measure("monster") = 2, measure("away") = 2, measure("freed") = 1, and the
\* measure of the empty text is 0.
C13_Measure ==
    Called("measure") =>
        /\ shape.measure = Cardinality({k \in 0..(Len(arg) - 2) :
                                    ~is_consonant(arg, k) /\ is_consonant(arg, k + 1)})
        /\ (arg = <<"t", "r", "e", "e">> => shape.measure = 0)
        /\ (arg = <<"m", "o", "n", "s", "t", "e", "r">> => shape.measure = 2)
        /\ (arg = <<"a", "w", "a", "y">> => shape.measure = 2)
        /\ (arg = <<"f", "r", "e", "e", "d">> => shape.measure = 1)
        /\ (arg = <<>> => shape.measure = 0)

\* C13's case: a word with two vowel-consonant pairs, one of them ending in a
\* "y" that counts as a consonant
C13_Witness ==
    /\ Called("measure")
    /\ shape.measure = 2
    /\ arg[Len(arg)] = "y"
    /\ is_consonant(arg, Len(arg) - 1)

\* where the run of "y"s that holds position n of w starts
YRunStart(w, n) ==
    CHOOSE j \in 0..n :
        /\ \A k \in j..n : At(w, k) = "y"
        /\ (j = 0 \/ At(w, j - 1) # "y")

\* the class of letter n of w, read off the word without recursion: in a run
\* of "y"s the first is a consonant when it starts the word or follows one of
\* a, e, i, o, u, and the classes alternate from there
IsConsonantLetter(w, n) ==
    IF At(w, n) \in {"a", "e", "i", "o", "u"} THEN FALSE
    ELSE IF At(w, n) # "y" THEN TRUE
    ELSE LET j == YRunStart(w, n)
             first == j = 0 \/ At(w, j - 1) \in {"a", "e", "i", "o", "u"}
         IN  IF (n - j) % 2 = 0 THEN first ELSE ~first

\* C14: for a lower-case word and a valid index i, is_consonant(word, i) is false
\* for a, e, i, o, u; for "y" it is true at index 0 and elsewhere true iff the
\* letter at i - 1 is not a consonant, so that the classes alternate along a run
\* of "y"s; for every other letter it is true.
C14_IsConsonant ==
    Called("is_consonant") =>
        LET c == At(arg, index)
        IN  /\ shape.is_consonant = IsConsonantLetter(arg, index)
            /\ (c \in {"a", "e", "i", "o", "u"} => shape.is_consonant = FALSE)
            /\ (c = "y" /\ index = 0 => shape.is_consonant = TRUE)
            /\ (c = "y" /\ index > 0 => shape.is_consonant = ~IsConsonantLetter(arg, index - 1))
            /\ (c \notin {"a", "e", "i", "o", "u", "y"} => shape.is_consonant = TRUE)

\* C14's case: the third "y" of a run that follows a consonant
C14_Witness ==
    /\ Called("is_consonant")
    /\ index >= 3
    /\ \A k \in (index - 2)..index : At(arg, k) = "y"
    /\ At(arg, index - 3) = "t"
    /\ shape.is_consonant = FALSE

\* the Lexicon: the words of the loaded set and the exception table
Lexicon == <<word_dict, exception_mappings>>

\* C15: the Lexicon set and the exception table are read-only after their
\* initial load: no step of stem_word, stem_document, get_top_stems or of a rule
\* or shape metric adds, removes or changes an entry of either, and the file
\* they were read from is left alone.
C15_LexiconReadOnly == [][Lexicon' = Lexicon /\ dictionary' = dictionary]_vars

\* C15's case: a second call of stem_word finds the entry of the exception
\* table the call before it has used
C15_Witness ==
    /\ Returned
    /\ prev # <<>>
    /\ normalized \in DOMAIN exception_mappings
    /\ normalize_word(prev[1].token) = normalized
    /\ result = get_exceptions[normalized]
    /\ result # normalized
    /\ prev[1].result = result

\* w ends with the letters of s
Ends(w, s) ==
    /\ Len(w) >= Len(s)
    /\ \A k \in 1..Len(s) : w[Len(w) - Len(s) + k] = s[k]

\* w without its last n letters, for a word of at least n letters
Without(w, n) == [k \in 1..(Len(w) - n) |-> w[k]]

EdIngRule(w) ==
    LET n == IF Ends(w, <<"e", "d">>) THEN 2 ELSE IF Ends(w, <<"i", "n", "g">>) THEN 3 ELSE 0
        r == Without(w, n)
    IN  IF n = 0 \/ ~(\E k \in 0..(Len(r) - 1) : ~IsConsonantLetter(r, k)) THEN w
        ELSE IF Ends(r, <<"a", "t">>) \/ Ends(r, <<"b", "l">>) \/ Ends(r, <<"i", "z">>) THEN r \o <<"e">>
        ELSE IF /\ Len(r) >= 2
                /\ r[Len(r)] = r[Len(r) - 1]
                /\ IsConsonantLetter(r, Len(r) - 1)
                /\ r[Len(r)] \notin {"l", "s", "z"}
        THEN Without(r, 1)
        ELSE IF measure(r) = 1 /\ ends_cvc(r) THEN r \o <<"e">>
        ELSE r

DocumentedRule2Pairs == {
    <<<<"a", "t", "i", "o", "n", "a", "l">>, <<"a", "t", "e">>>>, <<<<"t", "i", "o", "n", "a", "l">>, <<"t", "i", "o", "n">>>>, <<<<"e", "n", "c", "i">>, <<"e", "n", "c", "e">>>>,
    <<<<"a", "n", "c", "i">>, <<"a", "n", "c", "e">>>>, <<<<"i", "z", "e", "r">>, <<"i", "z", "e">>>>, <<<<"a", "b", "l", "i">>, <<"a", "b", "l", "e">>>>,
    <<<<"a", "l", "l", "i">>, <<"a", "l">>>>, <<<<"e", "n", "t", "l", "i">>, <<"e", "n", "t">>>>, <<<<"e", "l", "i">>, <<"e">>>>,
    <<<<"o", "u", "s", "l", "i">>, <<"o", "u", "s">>>>, <<<<"i", "z", "a", "t", "i", "o", "n">>, <<"i", "z", "e">>>>, <<<<"a", "t", "i", "o", "n">>, <<"a", "t", "e">>>>,
    <<<<"a", "t", "o", "r">>, <<"a", "t", "e">>>>, <<<<"a", "l", "i", "s", "m">>, <<"a", "l">>>>, <<<<"i", "v", "e", "n", "e", "s", "s">>, <<"i", "v", "e">>>>,
    <<<<"f", "u", "l", "n", "e", "s", "s">>, <<"f", "u", "l">>>>, <<<<"o", "u", "s", "n", "e", "s", "s">>, <<"o", "u", "s">>>>, <<<<"a", "l", "i", "t", "i">>, <<"a", "l">>>>,
    <<<<"i", "v", "i", "t", "i">>, <<"i", "v", "e">>>>, <<<<"b", "i", "l", "i", "t", "i">>, <<"b", "l", "e">>>> }

\* what one documented pair, or the "logi" rule, can make of w
DocumentedRewrites(w) ==
    {Without(w, Len(p[1])) \o p[2] :
        p \in {q \in DocumentedRule2Pairs :
                  Ends(w, q[1]) /\ measure(Without(w, Len(q[1]))) > 0}}
    \cup (IF Ends(w, <<"l", "o", "g", "i">>) /\ measure(Without(w, 3)) > 0
          THEN {Without(w, 1)} ELSE {})

\* C18 as stated: apply_rule_2 rewrites a word only through one of the 20
\* documented pairs, each applied only if the measure of the word without the
\* suffix is > 0, or through the "logi" rule (a second such rewrite may follow
\* the "alli" one, see C19); every other word is returned unchanged.
C18_DocumentedPairsOnly ==
    Called("apply_rule_2") =>
        \/ ret[1] = arg
        \/ ret[1] \in DocumentedRewrites(arg)
        \/ \E v \in DocumentedRewrites(arg) : ret[1] \in DocumentedRewrites(v)

\* C19: for a word ending "alli" whose part before "alli" has measure > 0,
\* apply_rule_2(word) is apply_rule_2 of the word without its final "li": a
\* suffix that the reduction exposes is rewritten in the same call
\* (relationalli -> relate, conditionalli -> condition), a word without one just
\* ends in "al" (radicalli -> radical); no call of apply_rule_2 nests its
\* self-call more than one level.
C19_AlliSelfCall ==
    /\ op = "apply_rule_2" => Len(frames) <= 2
    /\ (/\ Called("apply_rule_2")
        /\ Ends(arg, <<"a", "l", "l", "i">>)
        /\ measure(Without(arg, 4)) > 0) =>
           /\ Len(frames) = 2
           /\ ret[1] = apply_rule_2(Without(arg, 2))
           /\ ret[1] = rule_2_suffixes(Without(arg, 2))
           /\ (arg = <<"r", "e", "l", "a", "t", "i", "o", "n", "a", "l", "l", "i">> => ret[1] = <<"r", "e", "l", "a", "t", "e">>)
           /\ (arg = <<"c", "o", "n", "d", "i", "t", "i", "o", "n", "a", "l", "l", "i">> => ret[1] = <<"c", "o", "n", "d", "i", "t", "i", "o", "n">>)
           /\ (arg = <<"r", "a", "d", "i", "c", "a", "l", "l", "i">> => ret[1] = <<"r", "a", "d", "i", "c", "a", "l">>)
           /\ (FirstRule(Without(arg, 2), rule_2_table, 0) = 0 =>
                  ret[1] = Without(arg, 2) /\ Ends(ret[1], <<"a", "l">>))

\* C19's case: the reduction exposes a suffix, which the self-call rewrites
C19_Witness ==
    /\ Called("apply_rule_2")
    /\ Ends(arg, <<"a", "l", "l", "i">>)
    /\ Len(frames) = 2
    /\ ret[1] # Without(arg, 2)
    /\ ~Ends(ret[1], <<"a", "l">>)

\* the first suffix of a list that ends w with a remainder of measure > 1, as
\* << >> or <<suffix>>
FirstDroppable(w, list) ==
    LET fits == {k \in 1..Len(list) :
                    Ends(w, list[k]) /\ measure(Without(w, Len(list[k]))) > 1}
    IN  IF fits = {} THEN <<>>
        ELSE <<list[CHOOSE k \in fits : \A j \in fits : k <= j]>>

\* C20: apply_rule_4(word) removes at most one suffix: the first of al, ance,
\* ence, er, ic, able, ible, ant, ement, ment, ent that ends the word with a
\* remainder of measure > 1; failing that, "ion" when the remainder has
\* measure > 1 and ends in "s" or "t"; failing that, the first of ou, ism, ate,
\* iti, ous, ive, ize with a remainder of measure > 1; otherwise the word is
\* returned unchanged (adoption -> adopt, vision -> vision); the call never
\* indexes an empty remainder, so it does not raise.
C20_Rule4 ==
    op = "apply_rule_4" =>
        LET first == FirstDroppable(arg, <<<<"a", "l">>, <<"a", "n", "c", "e">>, <<"e", "n", "c", "e">>, <<"e", "r">>, <<"i", "c">>,
                                           <<"a", "b", "l", "e">>, <<"i", "b", "l", "e">>, <<"a", "n", "t">>, <<"e", "m", "e", "n", "t">>,
                                           <<"m", "e", "n", "t">>, <<"e", "n", "t">>>>)
            last == FirstDroppable(arg, <<<<"o", "u">>, <<"i", "s", "m">>, <<"a", "t", "e">>, <<"i", "t", "i">>, <<"o", "u", "s">>,
                                          <<"i", "v", "e">>, <<"i", "z", "e">>>>)
            stem == Without(arg, 3)
        IN  /\ ~raised
            /\ Called("apply_rule_4")
            /\ ret[1] = (IF first # <<>> THEN Without(arg, Len(first[1]))
                         ELSE IF /\ Ends(arg, <<"i", "o", "n">>)
                                 /\ measure(stem) > 1
                                 /\ stem[Len(stem)] \in {"s", "t"}
                         THEN stem
                         ELSE IF last # <<>> THEN Without(arg, Len(last[1]))
                         ELSE arg)
            /\ (arg = <<"a", "d", "o", "p", "t", "i", "o", "n">> => ret[1] = <<"a", "d", "o", "p", "t">>)
            /\ (arg = <<"v", "i", "s", "i", "o", "n">> => ret[1] = <<"v", "i", "s", "i", "o", "n">>)
            /\ (arg = <<"i", "o", "n">> => ret[1] = <<"i", "o", "n">>)

\* C20's case: "ion" stays after a remainder of measure > 1 that ends in
\* neither "s" nor "t"
C20_Witness ==
    /\ Called("apply_rule_4")
    /\ Ends(arg, <<"i", "o", "n">>)
    /\ measure(Without(arg, 3)) > 1
    /\ ret[1] = arg


\* what ends_cvc says of a stem, read off its letters: a stem of 2 letters is
\* vowel-consonant; a longer one ends consonant-vowel-consonant with a final
\* letter other than w, x, y
EndsCvcShape(s) ==
    \/ /\ Len(s) = 2
       /\ ~IsConsonantLetter(s, 0)
       /\ IsConsonantLetter(s, 1)
    \/ /\ Len(s) >= 3
       /\ IsConsonantLetter(s, Len(s) - 3)
       /\ ~IsConsonantLetter(s, Len(s) - 2)
       /\ IsConsonantLetter(s, Len(s) - 1)
       /\ s[Len(s)] \notin {"w", "x", "y"}

C22_Rule1c ==
    op = "apply_rule_1c" =>
        LET stem == Without(arg, 1)
            replaces == /\ Ends(arg, <<"y">>)
                        /\ Len(stem) > 1
                        /\ IsConsonantLetter(stem, Len(stem) - 1)
        IN  /\ ~raised
            /\ Called("apply_rule_1c")
            /\ ret[1] = (IF replaces THEN stem \o <<"i">> ELSE arg)
            /\ (arg = <<"h", "a", "p", "p", "y">> => ret[1] = <<"h", "a", "p", "p", "i">>)
            /\ (arg = <<"p", "a", "y">> => ret[1] = <<"p", "a", "y">>)
            /\ (arg = <<"b", "u", "y">> => ret[1] = <<"b", "u", "y">>)

\* C22's case: the "y" stays after a single consonant
C22_Witness ==
    /\ Called("apply_rule_1c")
    /\ Ends(arg, <<"y">>)
    /\ Len(arg) = 2
    /\ IsConsonantLetter(arg, 0)
    /\ ret[1] = arg

\* C23: apply_rule_5b(word) drops one final "l" iff the word ends in "ll" and
\* the word without its last letter has measure > 1; otherwise the word is
\* returned unchanged (controll -> control, compell -> compel, roll -> roll,
\* mill -> mill).
C23_Rule5b ==
    Called("apply_rule_5b") =>
        /\ ret[1] = (IF Ends(arg, <<"l", "l">>) /\ measure(Without(arg, 1)) > 1
                     THEN Without(arg, 1) ELSE arg)
        /\ (arg = <<"c", "o", "n", "t", "r", "o", "l", "l">> => ret[1] = <<"c", "o", "n", "t", "r", "o", "l">>)
        /\ (arg = <<"c", "o", "m", "p", "e", "l", "l">> => ret[1] = <<"c", "o", "m", "p", "e", "l">>)
        /\ (arg = <<"r", "o", "l", "l">> => ret[1] = <<"r", "o", "l", "l">>)
        /\ (arg = <<"m", "i", "l", "l">> => ret[1] = <<"m", "i", "l", "l">>)

\* C23's case: "ll" stays after a remainder of measure 1
C23_Witness ==
    /\ Called("apply_rule_5b")
    /\ Ends(arg, <<"l", "l">>)
    /\ measure(Without(arg, 1)) = 1
    /\ ret[1] = arg

\* s is a prefix of t
IsPrefix(s, t) == Len(s) <= Len(t) /\ \A k \in 1..Len(s) : s[k] = t[k]

\* the bounds C24 states, as far as a state shows them
C24_Bounded ==
    /\ IsPrefix(ran, AllStages)
    /\ pc \in {"return", "done"} /\ InCascadeCase(normalized) => ran = AllStages
    /\ pc \in {"return", "done"} /\ ~InCascadeCase(normalized) => ran = <<>>
    /\ pc = "2" /\ rule_2_recurses(word) => ~rule_2_recurses(DropLast(word, 2))
    /\ op = "apply_rule_2" => Len(frames) <= 2
    /\ Called("is_consonant") =>
          /\ Len(shape.calls) - 1 <= index
          /\ \A k \in 1..Len(shape.calls) : shape.calls[k] = index - (k - 1)
    /\ i <= Len(words)
    /\ Len(stems_seen) = i

\* C24: stem_word terminates on every finite input string, and stem_document
\* on every finite document: every call that is entered returns; the cascade
\* executes each of its eight stages exactly once, in order; every
\* is_consonant(word, i) call makes at most i nested recursive calls; and
\* apply_rule_2 re-enters itself at most once.
C24_Terminates ==
    /\ []C24_Bounded
    /\ (pc = "normalize") ~> (pc = "done")
    /\ (dpc = "loop") ~> (dpc = "done")
    /\ (op = "apply_rule_2") ~> (ret # <<>>)

\* C24's case: a call of stem_word has run all eight stages and returned, its
\* rule 2 having called itself
C24_Witness ==
    /\ Returned
    /\ ran = AllStages
    /\ rule_2_recurses(outs[3])
    /\ ~rule_2_recurses(DropLast(outs[3], 2))

\* the word the k-th stage applied in this call was given
StageInput(k) == IF k = 1 THEN normalized ELSE outs[k - 1]

\* the is_consonant calls of the stages applied so far in this call
CallsSoFar == UNION {stage_calls(ran[k], StageInput(k)) : k \in 1..Len(ran)}

\* C25: in every run of stem_word, every word handed from one cascade stage to
\* the next is non-empty, and every is_consonant(word, i) call made by the
\* stages and the shape metrics (contains_vowel, ends_double_consonant,
\* ends_cvc, measure) has 0 <= i < len(word); no stage indexes the last letter
\* of an empty remainder, so no stage raises.
C25_InBounds ==
    /\ ~raised
    /\ pc # "raised"
    /\ pc \in {"1a", "1b", "1c", "2", "3", "4", "5a", "5b"} => word # <<>>
    /\ \A k \in 1..Len(ran) : StageInput(k) # <<>> /\ outs[k] # <<>>
    /\ \A c \in CallsSoFar : 0 <= c[2] /\ c[2] < Len(c[1])

\* C25's case: rule 4 has been given a word that is "ion" and nothing else,
\* whose remainder is empty, and has returned it
C25_Witness ==
    /\ Returned
    /\ ran = AllStages
    /\ StageInput(6) = <<"i", "o", "n">>
    /\ outs[6] = <<"i", "o", "n">>

\* C26: for every token whose normalized form is in the Lexicon and is not an
\* exception-table key, the word stem_word returns is itself a member of the
\* Lexicon, and so is the candidate it keeps while the stages run: a raw stage
\* output that is not a Lexicon word is never returned.
C26_ReturnsLexiconWord ==
    /\ (/\ Returned
        /\ normalized \in word_dict
        /\ normalized \notin DOMAIN exception_mappings) =>
           /\ result \in word_dict
           /\ \A k \in 1..Len(outs) : outs[k] \notin word_dict => result # outs[k]
    /\ pc \in {"1a", "1b", "1c", "2", "3", "4", "5a", "5b", "return"} =>
           current_word \in word_dict

\* C26's case: the last stages have left a text that is no Lexicon word, and
\* the word returned is the output of an earlier stage
C26_Witness ==
    /\ Returned
    /\ ran = AllStages
    /\ outs[8] \notin word_dict
    /\ outs[7] \notin word_dict
    /\ result \in word_dict
    /\ result # normalized
    /\ \E k \in 1..6 : outs[k] = result
====
